---- MODULE Spec2Model ----
(***************************************************************************)
(* A model of sfcache: the sharded S3-FIFO memory tier (s3fifo / shard),   *)
(* the MemoryCache facade, and the two-tier coordinators PersistentCache   *)
(* and Cache over a persistence store.                                     *)
(*                                                                         *)
(* Entry objects live in a per-shard object table `obj` indexed by small   *)
(* integers that stand for Go pointers; the intrusive prev/next links of   *)
(* entryList are represented by the order of a sequence of such pointers.  *)
(* Every lock-protected region and every lock-free memory access of the    *)
(* source is one step of the calling thread, so that lock-free reads in    *)
(* shard.get interleave with writers exactly where the source allows.      *)
(***************************************************************************)
EXTENDS Integers, Sequences, FiniteSets, TLC

\* ------------------------------------------------------------------------
\* Bounds of the model
\* ------------------------------------------------------------------------
NumKeys == 3
NumVals == 2
Size == 2
MaxTime == 3
MaxTTL == 1
ConcSize == 1
ConcKeys == 2
FewVals == 1
TierSize == 1
MaxAsync == 2
WarmupLimit == 2
LegacyCap == 20
MaxGhostCap == 3
FreqBound == 4

\* ------------------------------------------------------------------------
\* Program constants
\* ------------------------------------------------------------------------
maxShards == 2048
minEntriesPerShard == 256
defaultSize == 16384
maxFreq == 3
smallRatioPct == 1
ghostRatioPct == 50
smallRatioLargePct == 5
ghostRatioLargePct == 100
bdcache_defaultCapacity == 10000
bdcache_smallDivisor == 10

Keys == 1..NumKeys
Threads == {1, 2}
NoThread == 0
Nil == 0
ZeroKey == 0
ZeroV == <<0, 0>>
ValuesOf(k) == {<<k, n>> : n \in 1..NumVals}
ValuesFor(k, vals) == {<<k, n>> : n \in 1..vals}
ZeroTime == -1
NoFile == [present |-> FALSE, value |-> ZeroV, expiry |-> ZeroTime]
TTLs == 0..MaxTTL

Max(a, b) == IF a >= b THEN a ELSE b
Range(f) == {f[x] : x \in DOMAIN f}

VARIABLES
    cfg,      \* configuration fixed at construction: kind, size, defaultTTL, threads
    shards,   \* s3fifo.shards: shard index -> shard state
    mu,       \* shard.mu: shard index -> thread holding the write lock, or NoThread
    now,      \* time.Now() in nanoseconds
    store,    \* persistence tier: key -> the file of the key, or NoFile
    pc,       \* per thread: position in the operation it executes
    loc,      \* per thread: the operation's arguments, locals and results
    trk,      \* history: the last completed operations of a serial caller
    hist,     \* history: the reads of resident keys and the completed writes
    async     \* the persistence writes of SetAsync whose goroutine has not yet run

vars == <<cfg, shards, mu, now, store, pc, loc, trk, hist, async>>

\* ------------------------------------------------------------------------
\* s3fifo construction
\* ------------------------------------------------------------------------
RECURSIVE floorPow2(_)
floorPow2(n) == IF n <= 1 THEN 1 ELSE 2 * floorPow2(n \div 2)

capacityOf(size) == IF size <= 0 THEN defaultSize ELSE size

numShardsOf(size) ==
    LET n0 == capacityOf(size) \div minEntriesPerShard
        n1 == IF n0 < 1 THEN 1 ELSE n0
        n2 == IF n1 > maxShards THEN maxShards ELSE n1
    IN floorPow2(n2)

shardCapOf(size) == (capacityOf(size) + numShardsOf(size) - 1) \div numShardsOf(size)

MaxThreads == Cardinality(Threads)
EntryIds == 1..(shardCapOf(Size) + 1 + MaxThreads)

ZeroEntry == [key |-> ZeroKey, value |-> ZeroV, expiryNano |-> 0, freq |-> 0, inSmall |-> FALSE]

newShard(capacity, smallPct, ghostPct) ==
    [entries     |-> [k \in Keys |-> Nil],
     small       |-> <<>>,
     main        |-> <<>>,
     ghostActive |-> {},
     ghostAging  |-> {},
     ghostCount  |-> 0,
     capacity    |-> capacity,
     smallCap    |-> Max(1, (capacity * smallPct) \div 100),
     ghostCap    |-> Max(1, (capacity * ghostPct) \div 100),
     freeEntries |-> <<>>,
     obj         |-> [e \in EntryIds |-> ZeroEntry]]

newS3FIFO(size) ==
    LET capacity == capacityOf(size)
        sp == IF capacity <= defaultSize THEN smallRatioPct ELSE smallRatioLargePct
        gp == IF capacity <= defaultSize THEN ghostRatioPct ELSE ghostRatioLargePct
    IN [i \in 0..(numShardsOf(size) - 1) |-> newShard(shardCapOf(size), sp, gp)]

shardIndex(key) == key % numShardsOf(cfg.size)
ShardIdx == 0..(numShardsOf(cfg.size) - 1)

s3fifo_len == LET RECURSIVE sum(_)
                  sum(i) == IF i < 0 THEN 0
                            ELSE Cardinality({k \in Keys : shards[i].entries[k] # Nil}) + sum(i - 1)
              IN sum(numShardsOf(cfg.size) - 1)

\* ------------------------------------------------------------------------
\* entryList
\* ------------------------------------------------------------------------
pushBack(l, e) == Append(l, e)
remove(l, e) == SelectSeq(l, LAMBDA x : x # e)
front(l) == Head(l)

\* ------------------------------------------------------------------------
\* time
\* ------------------------------------------------------------------------
timeToNano(t) == IF t = ZeroTime THEN 0 ELSE t

\* A variant in which a configured default TTL overrides the TTL of the call.
expiry_defaultFirst(ttl) ==
    LET t1 == IF cfg.defaultTTL > 0 THEN cfg.defaultTTL ELSE ttl
    IN IF t1 <= 0 THEN ZeroTime ELSE now + t1

expiry(ttl) ==
    LET t1 == IF ttl <= 0 THEN cfg.defaultTTL ELSE ttl
    IN IF t1 <= 0 THEN ZeroTime ELSE now + t1

\* ------------------------------------------------------------------------
\* shard: entry recycling, ghost, one iteration of each eviction loop
\* ------------------------------------------------------------------------
\* Pointers some thread still holds in a local variable.
heldBy(l) == {l[t].ent : t \in Threads} \ {Nil}

reachable(st, held) ==
    (Range(st.entries) \ {Nil}) \cup Range(st.small) \cup Range(st.main)
        \cup Range(st.freeEntries) \cup held

\* A pointer carries no information but its identity.  canon renumbers the
\* objects of a shard in the order small, main, entries, freeEntries, held,
\* and drops (garbage-collects) the objects nothing refers to.
RECURSIVE dedupe(_, _)
dedupe(q, seen) ==
    IF q = <<>> THEN <<>>
    ELSE IF Head(q) \in seen THEN dedupe(Tail(q), seen)
    ELSE <<Head(q)>> \o dedupe(Tail(q), seen \cup {Head(q)})

canonOrder(st, heldSeq) ==
    dedupe(st.small \o st.main \o
           SelectSeq([k \in Keys |-> st.entries[k]], LAMBDA e : e # Nil) \o
           st.freeEntries \o heldSeq, {})

newId(order, e) == IF e = Nil THEN Nil ELSE CHOOSE n \in 1..Len(order) : order[n] = e

canonShard(st, order) ==
    [st EXCEPT !.entries = [k \in Keys |-> newId(order, st.entries[k])],
               !.small = [n \in 1..Len(st.small) |-> newId(order, st.small[n])],
               !.main = [n \in 1..Len(st.main) |-> newId(order, st.main[n])],
               !.freeEntries = [n \in 1..Len(st.freeEntries) |-> newId(order, st.freeEntries[n])],
               !.obj = [n \in EntryIds |-> IF n <= Len(order) THEN st.obj[order[n]] ELSE ZeroEntry]]

getEntry(st, held) ==
    IF st.freeEntries # <<>>
    THEN [st |-> [st EXCEPT !.freeEntries = Tail(st.freeEntries)],
          e  |-> Head(st.freeEntries)]
    ELSE LET e == CHOOSE x \in EntryIds \ reachable(st, held) :
                      \A y \in EntryIds \ reachable(st, held) : x <= y
         IN [st |-> [st EXCEPT !.obj[e] = ZeroEntry], e |-> e]

putEntry(st, e) ==
    [st EXCEPT !.obj[e] = ZeroEntry,
               !.freeEntries = <<e>> \o st.freeEntries]

\* A variant that keeps the aging generation when the generations swap.
shard_addToGhost_keepAging(st, key) ==
    LET active == st.ghostActive \cup {key}
        count  == st.ghostCount + 1
    IN IF count >= st.ghostCap
       THEN [st EXCEPT !.ghostAging = st.ghostAging \cup active, !.ghostActive = {},
                       !.ghostCount = 0]
       ELSE [st EXCEPT !.ghostActive = active, !.ghostCount = count]

shard_addToGhost(st, key) ==
    LET active == st.ghostActive \cup {key}
        count  == st.ghostCount + 1
    IN IF count >= st.ghostCap
       THEN [st EXCEPT !.ghostAging = active, !.ghostActive = {}, !.ghostCount = 0]
       ELSE [st EXCEPT !.ghostActive = active, !.ghostCount = count]

\* A variant that evicts the front of small whatever its frequency.
shard_evictFromSmall_anyFreq(st) ==
    LET ent == front(st.small)
        s1  == [st EXCEPT !.small = remove(st.small, ent)]
    IN [st   |-> putEntry(shard_addToGhost(
                    [s1 EXCEPT !.entries[s1.obj[ent].key] = Nil], s1.obj[ent].key), ent),
        done |-> TRUE]

\* A variant that promotes a read entry with its frequency as it is.
shard_evictFromSmall_keepFreq(st) ==
    LET ent == front(st.small)
        s1  == [st EXCEPT !.small = remove(st.small, ent)]
    IN IF s1.obj[ent].freq = 0
       THEN [st   |-> putEntry(shard_addToGhost(
                         [s1 EXCEPT !.entries[s1.obj[ent].key] = Nil], s1.obj[ent].key), ent),
             done |-> TRUE]
       ELSE [st   |-> [s1 EXCEPT !.obj[ent].inSmall = FALSE,
                                 !.main = pushBack(s1.main, ent)],
             done |-> FALSE]

\* One iteration of the loop of evictFromSmall (small.len > 0).
shard_evictFromSmall(st) ==
    LET ent == front(st.small)
        s1  == [st EXCEPT !.small = remove(st.small, ent)]
    IN IF s1.obj[ent].freq = 0
       THEN [st   |-> putEntry(shard_addToGhost(
                         [s1 EXCEPT !.entries[s1.obj[ent].key] = Nil], s1.obj[ent].key), ent),
             done |-> TRUE]
       ELSE [st   |-> [s1 EXCEPT !.obj[ent].freq = 0,
                                 !.obj[ent].inSmall = FALSE,
                                 !.main = pushBack(s1.main, ent)],
             done |-> FALSE]

\* A variant that evicts the front of main at frequency 1 already.
shard_evictFromMain_early(st) ==
    LET ent == front(st.main)
        s1  == [st EXCEPT !.main = remove(st.main, ent)]
        f   == s1.obj[ent].freq
    IN IF f <= 1
       THEN [st   |-> putEntry([s1 EXCEPT !.entries[s1.obj[ent].key] = Nil], ent),
             done |-> TRUE]
       ELSE [st   |-> [s1 EXCEPT !.obj[ent].freq = f - 1,
                                 !.main = pushBack(s1.main, ent)],
             done |-> FALSE]

\* A variant whose second chance counts the frequency of a read entry up.
shard_evictFromMain_countUp(st) ==
    LET ent == front(st.main)
        s1  == [st EXCEPT !.main = remove(st.main, ent)]
        f   == s1.obj[ent].freq
    IN IF f = 0
       THEN [st   |-> putEntry([s1 EXCEPT !.entries[s1.obj[ent].key] = Nil], ent),
             done |-> TRUE]
       ELSE [st   |-> [s1 EXCEPT !.obj[ent].freq = f + 1,
                                 !.main = pushBack(s1.main, ent)],
             done |-> FALSE]

\* One iteration of the loop of evictFromMain (main.len > 0).
shard_evictFromMain(st) ==
    LET ent == front(st.main)
        s1  == [st EXCEPT !.main = remove(st.main, ent)]
        f   == s1.obj[ent].freq
    IN IF f = 0
       THEN [st   |-> putEntry([s1 EXCEPT !.entries[s1.obj[ent].key] = Nil], ent),
             done |-> TRUE]
       ELSE [st   |-> [s1 EXCEPT !.obj[ent].freq = f - 1,
                                 !.main = pushBack(s1.main, ent)],
             done |-> FALSE]

\* A variant that remembers the deleted key in the ghost.
shard_delete_toGhost(st, key) ==
    LET ent == st.entries[key]
    IN IF ent = Nil THEN st
       ELSE shard_addToGhost(
               putEntry([st EXCEPT !.small = IF st.obj[ent].inSmall THEN remove(st.small, ent)
                                             ELSE st.small,
                                   !.main = IF st.obj[ent].inSmall THEN st.main
                                            ELSE remove(st.main, ent),
                                   !.entries[key] = Nil], ent),
               key)

\* A variant that leaves the key where it is.
shard_delete_keep(st, key) == st

\* A variant that forgets the key and leaves its node in the queue.
shard_delete_unlinked(st, key) ==
    LET ent == st.entries[key]
    IN IF ent = Nil THEN st
       ELSE [st EXCEPT !.entries[key] = Nil]

shard_delete(st, key) ==
    LET ent == st.entries[key]
    IN IF ent = Nil THEN st
       ELSE putEntry([st EXCEPT !.small = IF st.obj[ent].inSmall THEN remove(st.small, ent) ELSE st.small,
                                !.main = IF st.obj[ent].inSmall THEN st.main ELSE remove(st.main, ent),
                                !.entries[key] = Nil], ent)

\* A variant that leaves the ghost as it is.
shard_flush_keepGhost(st) ==
    [st EXCEPT !.entries = [k \in Keys |-> Nil],
               !.small = <<>>,
               !.main = <<>>]

shard_flush(st) ==
    [st EXCEPT !.entries = [k \in Keys |-> Nil],
               !.small = <<>>,
               !.main = <<>>,
               !.ghostActive = {},
               !.ghostAging = {},
               !.ghostCount = 0]

\* ------------------------------------------------------------------------
\* Threads
\* ------------------------------------------------------------------------
\* History: what a set found when it took the shard's lock.
PreNone == [res |-> FALSE, ghost |-> FALSE, full |-> FALSE, smallFull |-> FALSE,
            cold |-> FALSE, hot |-> {}]

Idle == [op |-> "none", key |-> ZeroKey, value |-> ZeroV, exp |-> 0, texp |-> ZeroTime,
         ent |-> Nil, f |-> 0, i |-> 0, n |-> 0, inGhost |-> FALSE, cont |-> "ret",
         found |-> FALSE, val |-> ZeroV, err |-> "nil", fail |-> "none", stale |-> {},
         pre |-> PreNone, start |-> 0, had |-> {}, ttl |-> 0,
         seen |-> {}, entries |-> <<>>, loaded |-> 0]

TrkNone == [stage |-> "none", key |-> ZeroKey, val |-> ZeroV, exp |-> 0, err |-> "nil",
            sfail |-> "none", dfail |-> "none", had |-> {}]

shardOf(t) == shardIndex(loc[t].key)

\* The pointers into shard i that threads hold in locals, in thread order.
heldSeq(l, i) ==
    LET RECURSIVE go(_)
        go(t) == IF t > MaxThreads THEN <<>>
                 ELSE (IF l[t].ent # Nil /\ shardIndex(l[t].key) = i THEN <<l[t].ent>> ELSE <<>>)
                      \o go(t + 1)
    IN go(1)

residentIn(shs) == {k \in Keys : \E i \in ShardIdx : shs[i].entries[k] # Nil}
resident == residentIn(shards)

NoEvent == [hit |-> {}, exam |-> {}, scanEnd |-> FALSE]
HistNone == [hot |-> {}, fresh |-> {}, readSince |-> {}, scanned |-> FALSE, read |-> {},
             next |-> 1, completed |-> {}, stale |-> {}, failed |-> {}, closed |-> FALSE]

\* History of reads, kept where cfg.track asks for it:
\*   hot        resident keys read since they entered the cache,
\*   fresh      resident keys read since an eviction loop last examined them,
\*   readSince  resident keys read since the last call of evict() returned,
\*   scanned    a call of evict() has returned,
\*   read       keys a get has ever found.
\* History of writes, kept where cfg.versions asks for it (every Set then
\* writes a value no Set wrote before, numbered in the order of the calls):
\*   next       the number of the next value,
\*   completed  the values whose Set has returned without error,
\*   stale      the values that were persisted at construction or whose Set
\*              had returned before a Set in completed was called.
\* History of background writes, kept where cfg.writes asks for it:
\*   failed     the values whose goroutine has logged a failed Store.Set.
\* History of the cache:
\*   closed     Close has been called.
histAfter(shs, ev) ==
    IF ~cfg.track THEN hist
    ELSE [hist EXCEPT
          !.hot       = (hist.hot \cup ev.hit) \cap residentIn(shs),
          !.fresh     = ((hist.fresh \ ev.exam) \cup ev.hit) \cap residentIn(shs),
          !.readSince = IF ev.scanEnd THEN {}
                        ELSE IF ~hist.scanned THEN {}
                        ELSE (hist.readSince \cup ev.hit) \cap residentIn(shs),
          !.scanned   = hist.scanned \/ ev.scanEnd,
          !.read      = hist.read \cup ev.hit]

preOf(st, key) ==
    IF ~cfg.track THEN PreNone
    ELSE [res       |-> st.entries[key] # Nil,
          ghost     |-> key \in st.ghostActive \cup st.ghostAging,
          full      |-> Len(st.small) + Len(st.main) >= st.capacity,
          smallFull |-> Len(st.small) >= st.smallCap,
          cold      |-> \E n \in 1..Len(st.small) : st.obj[st.small[n]].freq = 0,
          hot       |-> hist.hot]

\* The step's new shards and locals, with pointers renumbered canonically.
Commit(shs, l, ev) ==
    LET order == [i \in ShardIdx |-> canonOrder(shs[i], heldSeq(l, i))]
    IN /\ shards' = [i \in ShardIdx |-> canonShard(shs[i], order[i])]
       /\ loc' = [t \in Threads |->
                    [l[t] EXCEPT !.ent = IF l[t].ent = Nil THEN Nil
                                         ELSE newId(order[shardIndex(l[t].key)], l[t].ent)]]
       /\ hist' = histAfter(shs, ev)

\* The memory-tier call of thread t returns to its caller.
memReturn(t, l) == pc' = [pc EXCEPT ![t] = l.cont]

\* ------------------------------------------------------------------------
\* shard.get: the map lookup under RLock, then lock-free reads of the entry
\* ------------------------------------------------------------------------
get_lookup(t) ==
    /\ pc[t] = "get_lookup"
    /\ mu[shardOf(t)] = NoThread
    /\ LET e == shards[shardOf(t)].entries[loc[t].key]
       IN IF e = Nil
          THEN /\ Commit(shards, [loc EXCEPT ![t].found = FALSE, ![t].val = ZeroV], NoEvent)
               /\ memReturn(t, loc[t])
          ELSE /\ Commit(shards, [loc EXCEPT ![t].ent = e], NoEvent)
               /\ pc' = [pc EXCEPT ![t] = "get_expiry"]
    /\ UNCHANGED <<cfg, async, mu, now, store, trk>>

\* A variant that takes the entry for expired at the instant of its expiry.
get_expiry_atInstant(t) ==
    /\ pc[t] = "get_expiry"
    /\ LET x == shards[shardOf(t)].obj[loc[t].ent].expiryNano
       IN IF x # 0 /\ now >= x
          THEN /\ Commit(shards, [loc EXCEPT ![t].found = FALSE, ![t].val = ZeroV, ![t].ent = Nil],
                         NoEvent)
               /\ memReturn(t, loc[t])
          ELSE /\ pc' = [pc EXCEPT ![t] = "get_freq"]
               /\ UNCHANGED <<loc, shards, hist>>
    /\ UNCHANGED <<cfg, async, mu, now, store, trk>>

\* A variant that counts a read of an expired entry before it reports the miss.
get_expiry_countExpired(t) ==
    /\ pc[t] = "get_expiry"
    /\ LET ent == loc[t].ent
           st  == shards[shardOf(t)]
           x   == st.obj[ent].expiryNano
       IN IF x # 0 /\ now > x
          THEN /\ Commit([shards EXCEPT ![shardOf(t)].obj[ent].freq = maxFreq - st.obj[ent].freq],
                         [loc EXCEPT ![t].found = FALSE, ![t].val = ZeroV, ![t].ent = Nil],
                         NoEvent)
               /\ memReturn(t, loc[t])
          ELSE /\ pc' = [pc EXCEPT ![t] = "get_freq"]
               /\ UNCHANGED <<loc, shards, hist>>
    /\ UNCHANGED <<cfg, async, mu, now, store, trk>>

get_expiry(t) ==
    /\ pc[t] = "get_expiry"
    /\ LET x == shards[shardOf(t)].obj[loc[t].ent].expiryNano
       IN IF x # 0 /\ now > x
          THEN /\ Commit(shards, [loc EXCEPT ![t].found = FALSE, ![t].val = ZeroV, ![t].ent = Nil],
                         NoEvent)
               /\ memReturn(t, loc[t])
          ELSE /\ pc' = [pc EXCEPT ![t] = "get_freq"]
               /\ UNCHANGED <<loc, shards, hist>>
    /\ UNCHANGED <<cfg, async, mu, now, store, trk>>

get_freq(t) ==
    /\ pc[t] = "get_freq"
    /\ LET f == shards[shardOf(t)].obj[loc[t].ent].freq
       IN IF f < maxFreq
          THEN /\ loc' = [loc EXCEPT ![t].f = f]
               /\ pc' = [pc EXCEPT ![t] = "get_store"]
          ELSE /\ pc' = [pc EXCEPT ![t] = "get_value"]
               /\ UNCHANGED loc
    /\ UNCHANGED <<cfg, async, shards, mu, now, store, trk, hist>>

get_store(t) ==
    /\ pc[t] = "get_store"
    /\ shards' = [shards EXCEPT ![shardOf(t)].obj[loc[t].ent].freq = loc[t].f + 1]
    /\ loc' = [loc EXCEPT ![t].f = 0]
    /\ pc' = [pc EXCEPT ![t] = "get_value"]
    /\ UNCHANGED <<cfg, async, mu, now, store, trk, hist>>

get_value(t) ==
    /\ pc[t] = "get_value"
    /\ Commit(shards, [loc EXCEPT ![t].found = TRUE,
                                  ![t].val = shards[shardOf(t)].obj[loc[t].ent].value,
                                  ![t].ent = Nil],
              [NoEvent EXCEPT !.hit = {loc[t].key}])
    /\ memReturn(t, loc[t])
    /\ UNCHANGED <<cfg, async, mu, now, store, trk>>

\* ------------------------------------------------------------------------
\* shard.set: one critical section under Lock, its loops taken step by step
\* ------------------------------------------------------------------------
\* A variant that renews the expiry and leaves the old value.
shard_update_expiryOnly(st, ent, value, expiryNano) ==
    [st EXCEPT !.obj[ent].expiryNano = expiryNano]

\* The update of a resident entry: value and expiry, the frequency untouched.
shard_update(st, ent, value, expiryNano) ==
    [st EXCEPT !.obj[ent].value = value,
               !.obj[ent].expiryNano = expiryNano]

\* A variant that sends every new entry to small.
shard_newEntry_small(st, ent, key, value, expiryNano, inGhost) ==
    [st EXCEPT !.obj[ent].key = key,
               !.obj[ent].value = value,
               !.obj[ent].expiryNano = expiryNano,
               !.obj[ent].inSmall = TRUE]

\* The fields of a new entry; a key the ghost remembers is bound for main.
shard_newEntry(st, ent, key, value, expiryNano, inGhost) ==
    [st EXCEPT !.obj[ent].key = key,
               !.obj[ent].value = value,
               !.obj[ent].expiryNano = expiryNano,
               !.obj[ent].inSmall = ~inGhost]

\* A variant that lets the shard grow one entry past its capacity.
atCapacity_over(st) == Len(st.small) + Len(st.main) > st.capacity

\* The test of the capacity loop.
atCapacity(st) == Len(st.small) + Len(st.main) >= st.capacity

set_begin(t) ==
    /\ pc[t] = "set_begin"
    /\ mu[shardOf(t)] = NoThread
    /\ LET i   == shardOf(t)
           st  == shards[i]
           key == loc[t].key
           ent == st.entries[key]
       IN IF ent # Nil
          THEN /\ shards' = [shards EXCEPT ![i] = shard_update(st, ent, loc[t].value, loc[t].exp)]
               /\ loc' = [loc EXCEPT ![t].pre = preOf(st, key)]
               /\ memReturn(t, loc[t])
               /\ UNCHANGED <<mu, hist>>
          ELSE LET inGhost == key \in st.ghostActive \/ key \in st.ghostAging
                   g       == getEntry(st, heldBy(loc))
               IN /\ Commit([shards EXCEPT ![i] =
                                shard_newEntry(g.st, g.e, key, loc[t].value, loc[t].exp, inGhost)],
                            [loc EXCEPT ![t].ent = g.e, ![t].inGhost = inGhost,
                                        ![t].pre = preOf(st, key)],
                            NoEvent)
                  /\ mu' = [mu EXCEPT ![i] = t]
                  /\ pc' = [pc EXCEPT ![t] = "set_loop"]
    /\ UNCHANGED <<cfg, async, now, store, trk>>

\* The test of the capacity loop and, when it passes, the dispatch of evict().
set_loop(t) ==
    /\ pc[t] = "set_loop"
    /\ LET st == shards[shardOf(t)]
       IN pc' = [pc EXCEPT ![t] =
                   IF atCapacity(st)
                   THEN IF Len(st.small) >= st.smallCap THEN "evict_small" ELSE "evict_main"
                   ELSE "set_insert"]
    /\ UNCHANGED <<cfg, async, shards, mu, now, store, loc, trk, hist>>

evict_small(t) ==
    /\ pc[t] = "evict_small"
    /\ LET i  == shardOf(t)
           st == shards[i]
       IN IF Len(st.small) > 0
          THEN LET r == shard_evictFromSmall(st)
               IN /\ Commit([shards EXCEPT ![i] = r.st], loc,
                            [hit |-> {}, exam |-> {st.obj[front(st.small)].key}, scanEnd |-> r.done])
                  /\ pc' = [pc EXCEPT ![t] = IF r.done THEN "set_loop" ELSE "evict_small"]
          ELSE /\ pc' = [pc EXCEPT ![t] = "set_loop"]
               /\ hist' = histAfter(shards, [NoEvent EXCEPT !.scanEnd = TRUE])
               /\ UNCHANGED <<shards, loc>>
    /\ UNCHANGED <<cfg, async, mu, now, store, trk>>

evict_main(t) ==
    /\ pc[t] = "evict_main"
    /\ LET i  == shardOf(t)
           st == shards[i]
       IN IF Len(st.main) > 0
          THEN LET r == shard_evictFromMain(st)
               IN /\ Commit([shards EXCEPT ![i] = r.st], loc,
                            [hit |-> {}, exam |-> {st.obj[front(st.main)].key}, scanEnd |-> r.done])
                  /\ pc' = [pc EXCEPT ![t] = IF r.done THEN "set_loop" ELSE "evict_main"]
          ELSE /\ pc' = [pc EXCEPT ![t] = "set_loop"]
               /\ hist' = histAfter(shards, [NoEvent EXCEPT !.scanEnd = TRUE])
               /\ UNCHANGED <<shards, loc>>
    /\ UNCHANGED <<cfg, async, mu, now, store, trk>>

set_insert(t) ==
    /\ pc[t] = "set_insert"
    /\ LET i   == shardOf(t)
           st  == shards[i]
           ent == loc[t].ent
       IN Commit([shards EXCEPT ![i] =
                    [st EXCEPT !.small = IF st.obj[ent].inSmall THEN pushBack(st.small, ent) ELSE st.small,
                               !.main = IF st.obj[ent].inSmall THEN st.main ELSE pushBack(st.main, ent),
                               !.entries[loc[t].key] = ent]],
                 [loc EXCEPT ![t].ent = Nil], NoEvent)
    /\ mu' = [mu EXCEPT ![shardOf(t)] = NoThread]
    /\ memReturn(t, loc[t])
    /\ UNCHANGED <<cfg, async, now, store, trk>>

\* ------------------------------------------------------------------------
\* shard.delete and s3fifo.flush
\* ------------------------------------------------------------------------
del(t) ==
    /\ pc[t] = "del"
    /\ mu[shardOf(t)] = NoThread
    /\ Commit([shards EXCEPT ![shardOf(t)] = shard_delete(shards[shardOf(t)], loc[t].key)], loc,
              NoEvent)
    /\ memReturn(t, loc[t])
    /\ UNCHANGED <<cfg, async, mu, now, store, trk>>

\* s3fifo.len: the shards one after another, each counted under its lock.
len(t) ==
    /\ pc[t] = "len"
    /\ LET i == loc[t].i
       IN IF i < numShardsOf(cfg.size)
          THEN /\ mu[i] = NoThread
               /\ loc' = [loc EXCEPT ![t].i = i + 1,
                                     ![t].n = loc[t].n +
                                         Cardinality({k \in Keys : shards[i].entries[k] # Nil})]
               /\ UNCHANGED pc
          ELSE /\ memReturn(t, loc[t])
               /\ UNCHANGED loc
    /\ UNCHANGED <<cfg, async, shards, mu, now, store, trk, hist>>

\* A variant that keeps the lock of every shard it has flushed until it
\* returns.
flush_holdLocks(t) ==
    /\ pc[t] = "flush"
    /\ LET i == loc[t].i
       IN IF i < numShardsOf(cfg.size)
          THEN /\ mu[i] = NoThread
               /\ Commit([shards EXCEPT ![i] = shard_flush(shards[i])],
                         [loc EXCEPT ![t].i = i + 1,
                                     ![t].n = loc[t].n +
                                         Cardinality({k \in Keys : shards[i].entries[k] # Nil})],
                         NoEvent)
               /\ mu' = [mu EXCEPT ![i] = t]
               /\ UNCHANGED pc
          ELSE /\ memReturn(t, loc[t])
               /\ mu' = [j \in DOMAIN mu |-> IF mu[j] = t THEN NoThread ELSE mu[j]]
               /\ UNCHANGED <<shards, loc, hist>>
    /\ UNCHANGED <<cfg, async, now, store, trk>>

flush(t) ==
    /\ pc[t] = "flush"
    /\ LET i == loc[t].i
       IN IF i < numShardsOf(cfg.size)
          THEN /\ mu[i] = NoThread
               /\ Commit([shards EXCEPT ![i] = shard_flush(shards[i])],
                         [loc EXCEPT ![t].i = i + 1,
                                     ![t].n = loc[t].n +
                                         Cardinality({k \in Keys : shards[i].entries[k] # Nil})],
                         NoEvent)
               /\ UNCHANGED pc
          ELSE /\ memReturn(t, loc[t])
               /\ UNCHANGED <<shards, loc, hist>>
    /\ UNCHANGED <<cfg, async, mu, now, store, trk>>

\* ------------------------------------------------------------------------
\* The persistence tier: one file for each key
\* ------------------------------------------------------------------------
\* Keys stand for strings; InvalidKey stands for one with a forbidden
\* character or of more than maxKeyLength bytes.
InvalidKey == NumKeys

filePersist_ValidateKey(key) == key # InvalidKey

\* A variant that returns a file whatever its expiry.
filePersist_Load_keepExpired(st, key, ok) ==
    LET miss == [store |-> st, value |-> ZeroV, expiry |-> ZeroTime, found |-> FALSE, err |-> FALSE]
    IN IF ~ok THEN [miss EXCEPT !.err = TRUE]
       ELSE IF ~st[key].present THEN miss
       ELSE [store |-> st, value |-> st[key].value, expiry |-> st[key].expiry,
             found |-> TRUE, err |-> FALSE]

\* ok = FALSE is an I/O error of the file system.  A file that has expired is
\* removed and reported as not found.
filePersist_Load(st, key, ok) ==
    LET miss == [store |-> st, value |-> ZeroV, expiry |-> ZeroTime, found |-> FALSE, err |-> FALSE]
    IN IF ~ok THEN [miss EXCEPT !.err = TRUE]
       ELSE IF ~st[key].present THEN miss
       ELSE IF st[key].expiry # ZeroTime /\ now > st[key].expiry
            THEN [miss EXCEPT !.store = [st EXCEPT ![key] = NoFile]]
       ELSE [store |-> st, value |-> st[key].value, expiry |-> st[key].expiry,
             found |-> TRUE, err |-> FALSE]

\* The file is written to a temporary name and renamed: a failed write leaves
\* the old file.
filePersist_Store(st, key, value, exp, ok) ==
    IF ok THEN [st EXCEPT ![key] = [present |-> TRUE, value |-> value, expiry |-> exp]]
    ELSE st

filePersist_Delete(st, key, ok) ==
    IF ok THEN [st EXCEPT ![key] = NoFile] ELSE st

\* Store.Flush removes every entry, or fails on an I/O error.
Store_Flush(st, ok) ==
    IF ok THEN [store |-> [k \in Keys |-> NoFile],
                n     |-> Cardinality({k \in Keys : st[k].present})]
    ELSE [store |-> st, n |-> 0]

\* What a call records when it enters: the values already superseded.
staleNow == IF cfg.versions THEN hist.stale ELSE {}
priorOf(key) ==
    IF cfg.versions THEN {v \in hist.completed \cup hist.stale : v[1] = key} ELSE {}
trkAtCall == IF pc = [u \in Threads |-> "idle"] THEN trk ELSE TrkNone
histAtSet == IF cfg.versions THEN [hist EXCEPT !.next = hist.next + 1] ELSE hist
hadNow == IF cfg.track \/ cfg.snap THEN resident ELSE {}

\* ------------------------------------------------------------------------
\* PersistentCache
\* ------------------------------------------------------------------------
PersistentCache_Get(t, key) ==
    /\ t \in cfg.threads /\ pc[t] = "idle" /\ cfg.kind = "PersistentCache"
    /\ loc' = [loc EXCEPT ![t] = [Idle EXCEPT !.op = "Get", !.key = key, !.cont = "pget_load",
                                              !.stale = staleNow, !.start = now,
                                              !.had = hadNow]]
    /\ pc' = [pc EXCEPT ![t] = "get_lookup"]
    /\ trk' = trkAtCall
    /\ UNCHANGED <<cfg, async, shards, mu, now, store, hist>>

\* A variant that returns what was loaded and leaves memory as it is.
PersistentCache_Get_load_noPromotion(t) ==
    /\ pc[t] = "pget_load"
    /\ IF loc[t].found
       THEN UNCHANGED <<loc, store>>
       ELSE IF ~filePersist_ValidateKey(loc[t].key)
       THEN /\ loc' = [loc EXCEPT ![t].err = "invalid key", ![t].fail = "validate"]
            /\ UNCHANGED store
       ELSE \E ok \in BOOLEAN :
              LET r == filePersist_Load(store, loc[t].key, ok)
              IN /\ store' = r.store
                 /\ loc' = IF r.err
                           THEN [loc EXCEPT ![t].err = "persistence load", ![t].fail = "load"]
                           ELSE IF ~r.found THEN loc
                           ELSE [loc EXCEPT ![t].value = r.value, ![t].found = TRUE,
                                            ![t].val = r.value]
    /\ pc' = [pc EXCEPT ![t] = "ret"]
    /\ UNCHANGED <<cfg, async, shards, mu, now, trk, hist>>

\* After the miss in memory: ValidateKey, Store.Get, and the call of
\* memory.set that promotes what was loaded.
PersistentCache_Get_load(t) ==
    /\ pc[t] = "pget_load"
    /\ IF loc[t].found
       THEN /\ pc' = [pc EXCEPT ![t] = "ret"]
            /\ UNCHANGED <<loc, store>>
       ELSE IF ~filePersist_ValidateKey(loc[t].key)
       THEN /\ loc' = [loc EXCEPT ![t].err = "invalid key", ![t].fail = "validate"]
            /\ pc' = [pc EXCEPT ![t] = "ret"]
            /\ UNCHANGED store
       ELSE \E ok \in BOOLEAN :
              LET r == filePersist_Load(store, loc[t].key, ok)
              IN /\ store' = r.store
                 /\ IF r.err
                    THEN /\ loc' = [loc EXCEPT ![t].err = "persistence load", ![t].fail = "load"]
                         /\ pc' = [pc EXCEPT ![t] = "ret"]
                    ELSE IF ~r.found
                    THEN /\ pc' = [pc EXCEPT ![t] = "ret"]
                         /\ UNCHANGED loc
                    ELSE /\ loc' = [loc EXCEPT ![t].value = r.value,
                                               ![t].exp = timeToNano(r.expiry),
                                               ![t].found = TRUE, ![t].val = r.value,
                                               ![t].cont = "ret"]
                         /\ pc' = [pc EXCEPT ![t] = "set_begin"]
    /\ UNCHANGED <<cfg, async, shards, mu, now, trk, hist>>

\* A variant that writes memory before it looks at the key.
PersistentCache_Set_memoryFirst(t, key, value, ttl) ==
    /\ t \in cfg.threads /\ pc[t] = "idle" /\ cfg.kind = "PersistentCache"
    /\ cfg.versions => value[2] = hist.next
    /\ LET e == expiry(ttl)
           l == [Idle EXCEPT !.op = "Set", !.key = key, !.value = value, !.texp = e,
                             !.exp = timeToNano(e), !.stale = priorOf(key),
                             !.ttl = ttl, !.start = now]
       IN IF ~filePersist_ValidateKey(key)
          THEN loc' = [loc EXCEPT ![t] = [l EXCEPT !.err = "invalid key", !.fail = "validate"]]
          ELSE loc' = [loc EXCEPT ![t] = [l EXCEPT !.cont = "pset_store"]]
    /\ pc' = [pc EXCEPT ![t] = "set_begin"]
    /\ trk' = trkAtCall
    /\ hist' = histAtSet
    /\ UNCHANGED <<cfg, async, shards, mu, now, store>>

PersistentCache_Set(t, key, value, ttl) ==
    /\ t \in cfg.threads /\ pc[t] = "idle" /\ cfg.kind = "PersistentCache"
    /\ cfg.versions => value[2] = hist.next
    /\ LET e == expiry(ttl)
           l == [Idle EXCEPT !.op = "Set", !.key = key, !.value = value, !.texp = e,
                             !.exp = timeToNano(e), !.stale = priorOf(key),
                             !.ttl = ttl, !.start = now]
       IN IF ~filePersist_ValidateKey(key)
          THEN /\ loc' = [loc EXCEPT ![t] = [l EXCEPT !.err = "invalid key", !.fail = "validate"]]
               /\ pc' = [pc EXCEPT ![t] = "ret"]
          ELSE /\ loc' = [loc EXCEPT ![t] = [l EXCEPT !.cont = "pset_store"]]
               /\ pc' = [pc EXCEPT ![t] = "set_begin"]
    /\ trk' = trkAtCall
    /\ hist' = histAtSet
    /\ UNCHANGED <<cfg, async, shards, mu, now, store>>

\* A variant that takes the value out of memory again when Store.Set fails.
PersistentCache_Set_store_rollback(t) ==
    /\ pc[t] = "pset_store"
    /\ mu[shardOf(t)] = NoThread
    /\ \E ok \in BOOLEAN :
         /\ store' = filePersist_Store(store, loc[t].key, loc[t].value, loc[t].texp, ok)
         /\ Commit(IF ok THEN shards
                   ELSE [shards EXCEPT ![shardOf(t)] = shard_delete(shards[shardOf(t)], loc[t].key)],
                   [loc EXCEPT ![t].err = IF ok THEN "nil" ELSE "persistence store failed",
                               ![t].fail = IF ok THEN "none" ELSE "store"],
                   NoEvent)
    /\ pc' = [pc EXCEPT ![t] = "ret"]
    /\ UNCHANGED <<cfg, async, mu, now, trk>>

\* After memory.set: Store.Set.
PersistentCache_Set_store(t) ==
    /\ pc[t] = "pset_store"
    /\ \E ok \in BOOLEAN :
         /\ store' = filePersist_Store(store, loc[t].key, loc[t].value, loc[t].texp, ok)
         /\ loc' = [loc EXCEPT ![t].err = IF ok THEN "nil" ELSE "persistence store failed",
                               ![t].fail = IF ok THEN "none" ELSE "store"]
    /\ pc' = [pc EXCEPT ![t] = "ret"]
    /\ UNCHANGED <<cfg, async, shards, mu, now, trk, hist>>

\* SetAsync: expiry, ValidateKey and memory.set as in Set.  At most MaxAsync
\* writes wait for their goroutine.
PersistentCache_SetAsync(t, key, value, ttl) ==
    /\ t \in cfg.threads /\ pc[t] = "idle" /\ cfg.kind = "PersistentCache"
    /\ Cardinality(async) < MaxAsync
    /\ LET e == expiry(ttl)
           l == [Idle EXCEPT !.op = "SetAsync", !.key = key, !.value = value, !.texp = e,
                             !.exp = timeToNano(e), !.ttl = ttl, !.start = now]
       IN IF ~filePersist_ValidateKey(key)
          THEN /\ loc' = [loc EXCEPT ![t] = [l EXCEPT !.err = "invalid key", !.fail = "validate"]]
               /\ pc' = [pc EXCEPT ![t] = "ret"]
          ELSE /\ loc' = [loc EXCEPT ![t] = [l EXCEPT !.cont = "pasync_go"]]
               /\ pc' = [pc EXCEPT ![t] = "set_begin"]
    /\ trk' = trkAtCall
    /\ UNCHANGED <<cfg, shards, mu, now, store, hist, async>>

\* A variant that waits for the write and returns its failure.
PersistentCache_SetAsync_go_wait(t) ==
    /\ pc[t] = "pasync_go"
    /\ \E ok \in BOOLEAN :
         /\ store' = filePersist_Store(store, loc[t].key, loc[t].value, loc[t].texp, ok)
         /\ loc' = [loc EXCEPT ![t].err = IF ok THEN "nil" ELSE "persistence store failed",
                               ![t].fail = IF ok THEN "none" ELSE "store"]
    /\ pc' = [pc EXCEPT ![t] = "ret"]
    /\ UNCHANGED <<cfg, async, shards, mu, now, trk, hist>>

\* After memory.set: the go statement starts the goroutine of the write, and
\* SetAsync returns nil.
PersistentCache_SetAsync_go(t) ==
    /\ pc[t] = "pasync_go"
    /\ async' = async \cup {[key |-> loc[t].key, value |-> loc[t].value, expiry |-> loc[t].texp]}
    /\ pc' = [pc EXCEPT ![t] = "ret"]
    /\ UNCHANGED <<cfg, shards, mu, now, store, loc, trk, hist>>

\* The goroutine of one write: Store.Set under its own timeout; a failure or
\* a timeout is logged.
asyncStore ==
    \E w \in async : \E ok \in BOOLEAN :
        /\ store' = filePersist_Store(store, w.key, w.value, w.expiry, ok)
        /\ async' = async \ {w}
        /\ hist' = IF cfg.writes /\ ~ok THEN [hist EXCEPT !.failed = @ \cup {w.value}] ELSE hist
        /\ UNCHANGED <<cfg, shards, mu, now, pc, loc, trk>>

PersistentCache_Delete(t, key) ==
    /\ t \in cfg.threads /\ pc[t] = "idle" /\ cfg.kind = "PersistentCache"
    /\ loc' = [loc EXCEPT ![t] = [Idle EXCEPT !.op = "Delete", !.key = key, !.cont = "pdel_store"]]
    /\ pc' = [pc EXCEPT ![t] = "del"]
    /\ trk' = trkAtCall
    /\ UNCHANGED <<cfg, async, shards, mu, now, store, hist>>

\* After memory.del: ValidateKey and Store.Delete.
PersistentCache_Delete_store(t) ==
    /\ pc[t] = "pdel_store"
    /\ IF ~filePersist_ValidateKey(loc[t].key)
       THEN /\ loc' = [loc EXCEPT ![t].err = "invalid key", ![t].fail = "validate"]
            /\ UNCHANGED store
       ELSE \E ok \in BOOLEAN :
              /\ store' = filePersist_Delete(store, loc[t].key, ok)
              /\ loc' = [loc EXCEPT ![t].err = IF ok THEN "nil" ELSE "persistence delete",
                                    ![t].fail = IF ok THEN "none" ELSE "delete"]
    /\ pc' = [pc EXCEPT ![t] = "ret"]
    /\ UNCHANGED <<cfg, async, shards, mu, now, trk, hist>>

PersistentCache_Flush(t) ==
    /\ t \in cfg.threads /\ pc[t] = "idle" /\ cfg.kind = "PersistentCache"
    /\ loc' = [loc EXCEPT ![t] = [Idle EXCEPT !.op = "Flush", !.cont = "pflush_store",
                                              !.had = hadNow]]
    /\ pc' = [pc EXCEPT ![t] = "flush"]
    /\ trk' = trkAtCall
    /\ UNCHANGED <<cfg, async, shards, mu, now, store, hist>>

\* After memory.flush: Store.Flush.
PersistentCache_Flush_store(t) ==
    /\ pc[t] = "pflush_store"
    /\ \E ok \in BOOLEAN :
         LET r == Store_Flush(store, ok)
         IN /\ store' = r.store
            /\ loc' = [loc EXCEPT ![t].n = loc[t].n + r.n,
                                  ![t].err = IF ok THEN "nil" ELSE "persistence flush",
                                  ![t].fail = IF ok THEN "none" ELSE "flush"]
    /\ pc' = [pc EXCEPT ![t] = "ret"]
    /\ UNCHANGED <<cfg, async, shards, mu, now, trk, hist>>

\* ------------------------------------------------------------------------
\* Cache: the coordinator whose reads and deletes only log persistence
\* failures.  Its memory tier is called through getFromMemory, setToMemory
\* and deleteFromMemory, here the get, set and delete of the memory tier.
\* ------------------------------------------------------------------------
Cache_expiry(ttl) ==
    IF ttl > 0 THEN now + ttl
    ELSE IF cfg.defaultTTL > 0 THEN now + cfg.defaultTTL
    ELSE ZeroTime

Cache_Get(t, key) ==
    /\ t \in cfg.threads /\ pc[t] = "idle" /\ cfg.kind = "Cache"
    /\ loc' = [loc EXCEPT ![t] = [Idle EXCEPT !.op = "Get", !.key = key, !.cont = "cget_load",
                                              !.start = now, !.had = hadNow]]
    /\ pc' = [pc EXCEPT ![t] = "get_lookup"]
    /\ trk' = trkAtCall
    /\ UNCHANGED <<cfg, async, shards, mu, now, store, hist>>

\* After the miss in memory: persist == nil, ValidateKey, Load, and the call
\* of setToMemory.
Cache_Get_load(t) ==
    /\ pc[t] = "cget_load"
    /\ IF loc[t].found \/ ~cfg.persist
       THEN /\ pc' = [pc EXCEPT ![t] = "ret"]
            /\ UNCHANGED <<loc, store>>
       ELSE IF ~filePersist_ValidateKey(loc[t].key)
       THEN /\ loc' = [loc EXCEPT ![t].fail = "validate"]
            /\ pc' = [pc EXCEPT ![t] = "ret"]
            /\ UNCHANGED store
       ELSE \E ok \in BOOLEAN :
              LET r == filePersist_Load(store, loc[t].key, ok)
              IN /\ store' = r.store
                 /\ IF r.err
                    THEN /\ loc' = [loc EXCEPT ![t].fail = "load"]
                         /\ pc' = [pc EXCEPT ![t] = "ret"]
                    ELSE IF ~r.found
                    THEN /\ pc' = [pc EXCEPT ![t] = "ret"]
                         /\ UNCHANGED loc
                    ELSE /\ loc' = [loc EXCEPT ![t].value = r.value,
                                               ![t].exp = timeToNano(r.expiry),
                                               ![t].found = TRUE, ![t].val = r.value,
                                               ![t].cont = "ret"]
                         /\ pc' = [pc EXCEPT ![t] = "set_begin"]
    /\ UNCHANGED <<cfg, async, shards, mu, now, trk, hist>>

Cache_Set(t, key, value, ttl) ==
    /\ t \in cfg.threads /\ pc[t] = "idle" /\ cfg.kind = "Cache"
    /\ LET e == Cache_expiry(ttl)
           l == [Idle EXCEPT !.op = "Set", !.key = key, !.value = value, !.texp = e,
                             !.exp = timeToNano(e), !.ttl = ttl, !.start = now]
       IN IF cfg.persist /\ ~filePersist_ValidateKey(key)
          THEN /\ loc' = [loc EXCEPT ![t] = [l EXCEPT !.err = "invalid key", !.fail = "validate"]]
               /\ pc' = [pc EXCEPT ![t] = "ret"]
          ELSE /\ loc' = [loc EXCEPT ![t] = [l EXCEPT !.cont = "cset_store"]]
               /\ pc' = [pc EXCEPT ![t] = "set_begin"]
    /\ trk' = trkAtCall
    /\ UNCHANGED <<cfg, async, shards, mu, now, store, hist>>

\* After setToMemory: Store, when there is a persistence tier.
Cache_Set_store(t) ==
    /\ pc[t] = "cset_store"
    /\ IF ~cfg.persist
       THEN UNCHANGED <<loc, store>>
       ELSE \E ok \in BOOLEAN :
              /\ store' = filePersist_Store(store, loc[t].key, loc[t].value, loc[t].texp, ok)
              /\ loc' = [loc EXCEPT ![t].err = IF ok THEN "nil" ELSE "persistence store failed",
                                    ![t].fail = IF ok THEN "none" ELSE "store"]
    /\ pc' = [pc EXCEPT ![t] = "ret"]
    /\ UNCHANGED <<cfg, async, shards, mu, now, trk, hist>>

Cache_Delete(t, key) ==
    /\ t \in cfg.threads /\ pc[t] = "idle" /\ cfg.kind = "Cache"
    /\ loc' = [loc EXCEPT ![t] = [Idle EXCEPT !.op = "Delete", !.key = key, !.cont = "cdel_store"]]
    /\ pc' = [pc EXCEPT ![t] = "del"]
    /\ trk' = trkAtCall
    /\ UNCHANGED <<cfg, async, shards, mu, now, store, hist>>

\* After deleteFromMemory: ValidateKey and Delete; failures are logged.
Cache_Delete_store(t) ==
    /\ pc[t] = "cdel_store"
    /\ IF ~cfg.persist
       THEN UNCHANGED <<loc, store>>
       ELSE IF ~filePersist_ValidateKey(loc[t].key)
       THEN /\ loc' = [loc EXCEPT ![t].fail = "validate"]
            /\ UNCHANGED store
       ELSE \E ok \in BOOLEAN :
              /\ store' = filePersist_Delete(store, loc[t].key, ok)
              /\ loc' = [loc EXCEPT ![t].fail = IF ok THEN "none" ELSE "delete"]
    /\ pc' = [pc EXCEPT ![t] = "ret"]
    /\ UNCHANGED <<cfg, async, shards, mu, now, trk, hist>>

\* ------------------------------------------------------------------------
\* Cache.Cleanup: s3fifo.cleanup of the single-lock memory tier
\* ------------------------------------------------------------------------
isExpired(st, key, t) ==
    /\ st.entries[key] # Nil
    /\ st.obj[st.entries[key]].expiryNano # 0
    /\ t > st.obj[st.entries[key]].expiryNano

\* A variant that takes the key out of the map and leaves its node queued.
s3fifo_cleanupOne_mapOnly(st, key) == [st EXCEPT !.entries[key] = Nil]

\* The removal of one collected key: out of its queue and out of the map.
s3fifo_cleanupOne(st, key) ==
    LET ent == st.entries[key]
    IN [st EXCEPT !.small = IF st.obj[ent].inSmall THEN remove(st.small, ent) ELSE st.small,
                  !.main = IF st.obj[ent].inSmall THEN st.main ELSE remove(st.main, ent),
                  !.entries[key] = Nil]

RECURSIVE s3fifo_removeAll(_, _)
s3fifo_removeAll(st, expired) ==
    IF expired = {} THEN st
    ELSE LET key == CHOOSE k \in expired : TRUE
         IN s3fifo_removeAll(s3fifo_cleanupOne(st, key), expired \ {key})

\* A variant that also collects the entries at the very instant of their expiry.
s3fifo_cleanup_atInstant(st, t) ==
    LET expired == {k \in Keys : isExpired(st, k, t + 1)}
    IN [st |-> s3fifo_removeAll(st, expired), removed |-> Cardinality(expired)]

\* The keys whose expiry has passed are collected, then removed one by one.
s3fifo_cleanup(st, t) ==
    LET expired == {k \in Keys : isExpired(st, k, t)}
    IN [st |-> s3fifo_removeAll(st, expired), removed |-> Cardinality(expired)]

Cache_Cleanup(t) ==
    /\ t \in cfg.threads /\ pc[t] = "idle" /\ cfg.kind = "Cache"
    /\ loc' = [loc EXCEPT ![t] = [Idle EXCEPT !.op = "Cleanup"]]
    /\ pc' = [pc EXCEPT ![t] = "cleanup"]
    /\ trk' = trkAtCall
    /\ UNCHANGED <<cfg, async, shards, mu, now, store, hist>>

cleanup(t) ==
    /\ pc[t] = "cleanup"
    /\ \A i \in ShardIdx : mu[i] = NoThread
    /\ Commit([i \in ShardIdx |-> s3fifo_cleanup(shards[i], now).st],
              [loc EXCEPT ![t].n =
                   LET RECURSIVE sum(_)
                       sum(i) == IF i < 0 THEN 0
                                 ELSE s3fifo_cleanup(shards[i], now).removed + sum(i - 1)
                   IN sum(numShardsOf(cfg.size) - 1)],
              NoEvent)
    /\ memReturn(t, loc[t])
    /\ UNCHANGED <<cfg, async, mu, now, store, trk>>

\* ------------------------------------------------------------------------
\* The single-lock s3fifo of package bdcache.  Every method runs under c.mu
\* from its first statement to its return, so each is one step.  Its state is
\* kept as shard 0: items is the field entries, and the ghost is the queue
\* of keys in the field ghost.  Entries are allocated, never recycled: an
\* entry that leaves the map is garbage.
\* ------------------------------------------------------------------------
\* The keys and the entries of the largest s3fifo modelled.
LegacyKeys == 1..Max(NumKeys, LegacyCap + 2)
LegacyIds == 1..Max(Cardinality(EntryIds), LegacyCap + 2)

bdcache_newS3FIFO(capacity) ==
    LET c        == IF capacity <= 0 THEN bdcache_defaultCapacity ELSE capacity
        smallCap == Max(1, c \div bdcache_smallDivisor)
    IN [entries     |-> [k \in LegacyKeys |-> Nil],
        small       |-> <<>>,
        main        |-> <<>>,
        ghost       |-> <<>>,
        capacity    |-> c,
        smallCap    |-> smallCap,
        mainCap     |-> c - smallCap,
        ghostCap    |-> c,
        freeEntries |-> <<>>,
        obj         |-> [e \in LegacyIds |-> ZeroEntry]]

bdcache_len(st) == Cardinality({k \in DOMAIN st.entries : st.entries[k] # Nil})

\* delete(c.items, key) of the entry ent, which nothing refers to afterwards.
bdcache_unmap(st, ent) ==
    [st EXCEPT !.entries[st.obj[ent].key] = Nil, !.obj[ent] = ZeroEntry]

bdcache_addToGhost(st, key) ==
    LET g == IF Len(st.ghost) >= st.ghostCap THEN Tail(st.ghost) ELSE st.ghost
    IN [st EXCEPT !.ghost = Append(g, key)]

RECURSIVE bdcache_evictFromSmall(_)
bdcache_evictFromSmall(st) ==
    IF st.small = <<>> THEN st
    ELSE LET ent == front(st.small)
             s1  == [st EXCEPT !.small = remove(st.small, ent)]
         IN IF s1.obj[ent].freq > 0
            THEN bdcache_evictFromSmall([s1 EXCEPT !.obj[ent].freq = 0,
                                                   !.obj[ent].inSmall = FALSE,
                                                   !.main = pushBack(s1.main, ent)])
            ELSE bdcache_addToGhost(bdcache_unmap(s1, ent), s1.obj[ent].key)

RECURSIVE bdcache_evictFromMain(_)
bdcache_evictFromMain(st) ==
    IF st.main = <<>> THEN st
    ELSE LET ent == front(st.main)
             s1  == [st EXCEPT !.main = remove(st.main, ent)]
         IN IF s1.obj[ent].freq > 0
            THEN bdcache_evictFromMain([s1 EXCEPT !.obj[ent].freq = s1.obj[ent].freq - 1,
                                                  !.main = pushBack(s1.main, ent)])
            ELSE bdcache_addToGhost(bdcache_unmap(s1, ent), s1.obj[ent].key)

bdcache_evict(st) ==
    IF Len(st.small) > 0 THEN bdcache_evictFromSmall(st) ELSE bdcache_evictFromMain(st)

bdcache_get(st, key, t) ==
    LET ent == st.entries[key]
    IN IF ent = Nil THEN [st |-> st, value |-> ZeroV, found |-> FALSE]
       ELSE IF st.obj[ent].expiryNano # 0 /\ t > st.obj[ent].expiryNano
       THEN [st |-> st, value |-> ZeroV, found |-> FALSE]
       ELSE [st |-> [st EXCEPT !.obj[ent].freq = st.obj[ent].freq + 1],
             value |-> st.obj[ent].value, found |-> TRUE]

bdcache_set(st, key, value, expiryNano) ==
    LET ent == st.entries[key]
    IN IF ent # Nil
       THEN [st EXCEPT !.obj[ent].value = value,
                       !.obj[ent].expiryNano = expiryNano,
                       !.obj[ent].freq = st.obj[ent].freq + 1]
       ELSE LET inGhost == key \in Range(st.ghost)
                s1 == IF inGhost THEN [st EXCEPT !.ghost = SelectSeq(st.ghost, LAMBDA k : k # key)]
                      ELSE st
                s2 == IF bdcache_len(s1) >= s1.capacity THEN bdcache_evict(s1) ELSE s1
                used == Range(s2.entries)
                ent1 == CHOOSE x \in DOMAIN s2.obj \ used : \A y \in DOMAIN s2.obj \ used : x <= y
            IN [s2 EXCEPT !.obj[ent1] = [key |-> key, value |-> value,
                                         expiryNano |-> expiryNano, freq |-> 0,
                                         inSmall |-> ~inGhost],
                          !.small = IF ~inGhost THEN pushBack(s2.small, ent1) ELSE s2.small,
                          !.main = IF ~inGhost THEN s2.main ELSE pushBack(s2.main, ent1),
                          !.entries[key] = ent1]

bdcache_delete(st, key) ==
    LET ent == st.entries[key]
    IN IF ent = Nil THEN st
       ELSE bdcache_unmap(
               [st EXCEPT !.small = IF st.obj[ent].inSmall THEN remove(st.small, ent) ELSE st.small,
                          !.main = IF st.obj[ent].inSmall THEN st.main ELSE remove(st.main, ent)],
               ent)

\* The frequency of the entry a get or an updating set would count up; the
\* calls that would take it past FreqBound are left out.
freqRoom(key) ==
    shards[0].entries[key] # Nil => shards[0].obj[shards[0].entries[key]].freq < FreqBound

S3fifo_get(t, key) ==
    /\ t \in cfg.threads /\ pc[t] = "idle" /\ cfg.kind = "s3fifo"
    /\ freqRoom(key)
    /\ LET r == bdcache_get(shards[0], key, now)
       IN /\ shards' = [shards EXCEPT ![0] = r.st]
          /\ loc' = [loc EXCEPT ![t] = [Idle EXCEPT !.op = "Get", !.key = key, !.start = now,
                                                    !.found = r.found, !.val = r.value]]
    /\ pc' = [pc EXCEPT ![t] = "ret"]
    /\ trk' = trkAtCall
    /\ UNCHANGED <<cfg, async, mu, now, store, hist>>

S3fifo_set(t, key, value, expiryNano) ==
    /\ t \in cfg.threads /\ pc[t] = "idle" /\ cfg.kind = "s3fifo"
    /\ freqRoom(key)
    /\ shards' = [shards EXCEPT ![0] = bdcache_set(shards[0], key, value, expiryNano)]
    /\ loc' = [loc EXCEPT ![t] = [Idle EXCEPT !.op = "Set", !.key = key, !.value = value,
                                              !.exp = expiryNano, !.start = now]]
    /\ pc' = [pc EXCEPT ![t] = "ret"]
    /\ trk' = trkAtCall
    /\ UNCHANGED <<cfg, async, mu, now, store, hist>>

S3fifo_delete(t, key) ==
    /\ t \in cfg.threads /\ pc[t] = "idle" /\ cfg.kind = "s3fifo"
    /\ shards' = [shards EXCEPT ![0] = bdcache_delete(shards[0], key)]
    /\ loc' = [loc EXCEPT ![t] = [Idle EXCEPT !.op = "Delete", !.key = key]]
    /\ pc' = [pc EXCEPT ![t] = "ret"]
    /\ trk' = trkAtCall
    /\ UNCHANGED <<cfg, async, mu, now, store, hist>>

\* ------------------------------------------------------------------------
\* MemoryCache
\* ------------------------------------------------------------------------
MemoryCache_Get(t, key) ==
    /\ t \in cfg.threads /\ pc[t] = "idle" /\ cfg.kind = "MemoryCache"
    /\ loc' = [loc EXCEPT ![t] = [Idle EXCEPT !.op = "Get", !.key = key, !.start = now]]
    /\ pc' = [pc EXCEPT ![t] = "get_lookup"]
    /\ trk' = trkAtCall
    /\ UNCHANGED <<cfg, async, shards, mu, now, store, hist>>

MemoryCache_Set(t, key, value, ttl) ==
    /\ t \in cfg.threads /\ pc[t] = "idle" /\ cfg.kind = "MemoryCache"
    /\ loc' = [loc EXCEPT ![t] = [Idle EXCEPT !.op = "Set", !.key = key, !.value = value,
                                              !.exp = timeToNano(expiry(ttl)),
                                              !.ttl = ttl, !.start = now]]
    /\ pc' = [pc EXCEPT ![t] = "set_begin"]
    /\ trk' = trkAtCall
    /\ UNCHANGED <<cfg, async, shards, mu, now, store, hist>>

\* GetOrSet: memory.get, and after a miss the loader and Set.
MemoryCache_GetOrSet(t, key, ttl) ==
    /\ t \in cfg.threads /\ pc[t] = "idle" /\ cfg.kind = "MemoryCache"
    /\ loc' = [loc EXCEPT ![t] = [Idle EXCEPT !.op = "GetOrSet", !.key = key, !.ttl = ttl,
                                              !.start = now, !.cont = "mgos_load"]]
    /\ pc' = [pc EXCEPT ![t] = "get_lookup"]
    /\ trk' = trkAtCall
    /\ UNCHANGED <<cfg, async, shards, mu, now, store, hist>>

\* After memory.get: a hit is returned; after a miss the loader of the caller
\* runs and its value is handed to Set.
MemoryCache_GetOrSet_load(t) ==
    /\ pc[t] = "mgos_load"
    /\ IF loc[t].found
       THEN /\ pc' = [pc EXCEPT ![t] = "ret"]
            /\ UNCHANGED loc
       ELSE \E v \in ValuesFor(loc[t].key, cfg.vals) :
              /\ loc' = [loc EXCEPT ![t].value = v, ![t].val = v,
                                    ![t].exp = timeToNano(expiry(loc[t].ttl)),
                                    ![t].cont = "ret"]
              /\ pc' = [pc EXCEPT ![t] = "set_begin"]
    /\ UNCHANGED <<cfg, async, shards, mu, now, store, trk, hist>>

MemoryCache_Delete(t, key) ==
    /\ t \in cfg.threads /\ pc[t] = "idle" /\ cfg.kind = "MemoryCache"
    /\ loc' = [loc EXCEPT ![t] = [Idle EXCEPT !.op = "Delete", !.key = key, !.had = hadNow]]
    /\ pc' = [pc EXCEPT ![t] = "del"]
    /\ trk' = trkAtCall
    /\ UNCHANGED <<cfg, async, shards, mu, now, store, hist>>

MemoryCache_Flush(t) ==
    /\ t \in cfg.threads /\ pc[t] = "idle" /\ cfg.kind = "MemoryCache"
    /\ loc' = [loc EXCEPT ![t] = [Idle EXCEPT !.op = "Flush", !.had = hadNow]]
    /\ pc' = [pc EXCEPT ![t] = "flush"]
    /\ trk' = trkAtCall
    /\ UNCHANGED <<cfg, async, shards, mu, now, store, hist>>

\* Close: Store.Close of the persistence tier, which has no resources of its
\* own to release; the result is nil.
PersistentCache_Close(t) ==
    /\ t \in cfg.threads /\ pc[t] = "idle" /\ cfg.kind = "PersistentCache"
    /\ loc' = [loc EXCEPT ![t] = [Idle EXCEPT !.op = "Close"]]
    /\ pc' = [pc EXCEPT ![t] = "ret"]
    /\ hist' = [hist EXCEPT !.closed = TRUE]
    /\ trk' = trkAtCall
    /\ UNCHANGED <<cfg, async, shards, mu, now, store>>

Cache_Close(t) ==
    /\ t \in cfg.threads /\ pc[t] = "idle" /\ cfg.kind = "Cache"
    /\ loc' = [loc EXCEPT ![t] = [Idle EXCEPT !.op = "Close"]]
    /\ pc' = [pc EXCEPT ![t] = "ret"]
    /\ hist' = [hist EXCEPT !.closed = TRUE]
    /\ trk' = trkAtCall
    /\ UNCHANGED <<cfg, async, shards, mu, now, store>>

MemoryCache_Len(t) ==
    /\ t \in cfg.threads /\ pc[t] = "idle" /\ cfg.kind = "MemoryCache"
    /\ loc' = [loc EXCEPT ![t] = [Idle EXCEPT !.op = "Len"]]
    /\ pc' = [pc EXCEPT ![t] = "len"]
    /\ trk' = trkAtCall
    /\ UNCHANGED <<cfg, async, shards, mu, now, store, hist>>

PersistentCache_Len(t) ==
    /\ t \in cfg.threads /\ pc[t] = "idle" /\ cfg.kind = "PersistentCache"
    /\ loc' = [loc EXCEPT ![t] = [Idle EXCEPT !.op = "Len"]]
    /\ pc' = [pc EXCEPT ![t] = "len"]
    /\ trk' = trkAtCall
    /\ UNCHANGED <<cfg, async, shards, mu, now, store, hist>>

\* The operation of thread t has returned to its caller; the caller takes the
\* result.  trk remembers the set (and the delete after it) that a caller with
\* no operation of another thread in flight has just completed.
Return(t) ==
    /\ pc[t] = "ret"
    /\ pc' = [pc EXCEPT ![t] = "idle"]
    /\ loc' = [loc EXCEPT ![t] = Idle]
    /\ trk' = IF \E u \in Threads \ {t} : pc[u] # "idle" THEN TrkNone
              ELSE IF loc[t].op = "Set"
              THEN [TrkNone EXCEPT !.stage = "set", !.key = loc[t].key, !.val = loc[t].value,
                                   !.exp = loc[t].exp, !.err = loc[t].err,
                                   !.sfail = loc[t].fail]
              ELSE IF loc[t].op = "Delete" /\ trk.stage = "set" /\ trk.key = loc[t].key
                      /\ trk.sfail # "validate"
              THEN [trk EXCEPT !.stage = "setdel", !.err = loc[t].err, !.dfail = loc[t].fail]
              ELSE IF loc[t].op = "Get" /\ cfg.snap /\ loc[t].found /\ loc[t].value # ZeroV
              THEN [TrkNone EXCEPT !.stage = "promoted", !.key = loc[t].key, !.val = loc[t].val]
              ELSE IF loc[t].op = "Flush" /\ cfg.track
              THEN [TrkNone EXCEPT !.stage = "flush", !.had = loc[t].had]
              ELSE TrkNone
    /\ hist' = IF cfg.versions /\ loc[t].op = "Set" /\ loc[t].err = "nil"
               THEN [hist EXCEPT !.completed = hist.completed \cup {loc[t].value},
                                 !.stale = hist.stale \cup loc[t].stale]
               ELSE hist
    /\ UNCHANGED <<cfg, async, shards, mu, now, store>>

Tick ==
    /\ now < MaxTime
    /\ now' = now + 1
    /\ UNCHANGED <<cfg, async, shards, mu, store, pc, loc, trk, hist>>

\* ------------------------------------------------------------------------
\* Specifications
\* ------------------------------------------------------------------------
\* ------------------------------------------------------------------------
\* Warmup: the goroutine started by Persistent (and by New) when a warmup
\* limit is configured.  LoadRecent walks the directory and reads one file
\* after another, sorts what it read by UpdatedAt and sends at most limit
\* entries; doWarmup calls memory.set for each entry it receives.  UpdatedAt
\* is not kept in the files of the model: the entries are sent in any order,
\* which covers every order the sort can produce.
\* ------------------------------------------------------------------------
Warmer == MaxThreads

\* filepath.Walk reaches the file of one more key, or has reached them all.
filePersist_LoadRecent_walk(t) ==
    /\ t = Warmer /\ pc[t] = "warm_walk"
    /\ IF loc[t].seen = cfg.keys
       THEN /\ pc' = [pc EXCEPT ![t] = "warm_send"]
            /\ UNCHANGED <<loc, store>>
       ELSE /\ \E k \in cfg.keys \ loc[t].seen : \E ok \in BOOLEAN :
                 LET f       == store[k]
                     expired == f.expiry # ZeroTime /\ loc[t].start > f.expiry
                     e       == [key |-> k, value |-> f.value, expiry |-> f.expiry]
                 IN /\ loc' = [loc EXCEPT ![t].seen = @ \cup {k},
                                          ![t].entries = IF f.present /\ ok /\ ~expired
                                                         THEN Append(@, e) ELSE @]
                    /\ store' = IF f.present /\ ok /\ expired
                                THEN [store EXCEPT ![k] = NoFile] ELSE store
            /\ UNCHANGED pc
    /\ UNCHANGED <<cfg, async, shards, mu, now, trk, hist>>

\* One pass of `for entry := range entryCh`: the next entry sent, if the
\* limit allows one, is handed to memory.set; otherwise the channel is
\* closed and warmup is over.
doWarmup(t) ==
    /\ t = Warmer /\ pc[t] = "warm_send"
    /\ IF loc[t].entries = <<>> \/ (cfg.warmup > 0 /\ loc[t].loaded >= cfg.warmup)
       THEN /\ pc' = [pc EXCEPT ![t] = "warm_done"]
            /\ UNCHANGED loc
       ELSE /\ \E j \in DOMAIN loc[t].entries :
                 LET e == loc[t].entries[j]
                 IN loc' = [loc EXCEPT ![t].key = e.key, ![t].value = e.value,
                                       ![t].exp = timeToNano(e.expiry),
                                       ![t].entries = SubSeq(@, 1, j - 1) \o SubSeq(@, j + 1, Len(@)),
                                       ![t].loaded = @ + 1,
                                       ![t].cont = "warm_send"]
            /\ pc' = [pc EXCEPT ![t] = "set_begin"]
    /\ UNCHANGED <<cfg, async, shards, mu, now, store, trk, hist>>

Config(kind, threads, size, keys, vals) ==
    [kind |-> kind, persist |-> kind # "MemoryCache", size |-> size, defaultTTL |-> 0,
     threads |-> threads, keys |-> keys, vals |-> vals, ttls |-> {0},
     track |-> FALSE, versions |-> FALSE, snap |-> FALSE, warmup |-> 0, writes |-> FALSE]

InitWith(c, files) ==
    /\ cfg = c
    /\ shards = newS3FIFO(c.size)
    /\ mu = [i \in ShardIdx |-> NoThread]
    /\ now = 1
    /\ store = files
    /\ pc = [t \in Threads |-> "idle"]
    /\ loc = [t \in Threads |-> Idle]
    /\ trk = TrkNone
    /\ hist = [HistNone EXCEPT !.completed = {files[k].value : k \in {x \in Keys : files[x].present}}]
    /\ async = {}

NoFiles == [k \in Keys |-> NoFile]

memStep(t) ==
    \/ get_lookup(t) \/ get_expiry(t) \/ get_freq(t) \/ get_store(t) \/ get_value(t)
    \/ set_begin(t) \/ set_loop(t) \/ evict_small(t) \/ evict_main(t) \/ set_insert(t)
    \/ del(t) \/ flush(t)

memCall(t) ==
    \/ \E k \in cfg.keys : MemoryCache_Get(t, k)
    \/ \E k \in cfg.keys : \E v \in ValuesFor(k, cfg.vals) : \E ttl \in cfg.ttls : MemoryCache_Set(t, k, v, ttl)
    \/ \E k \in cfg.keys : MemoryCache_Delete(t, k)
    \/ MemoryCache_Flush(t)

persistentCall(t) ==
    \/ \E k \in cfg.keys : PersistentCache_Get(t, k)
    \/ \E k \in cfg.keys : \E v \in ValuesFor(k, cfg.vals) : \E ttl \in cfg.ttls : PersistentCache_Set(t, k, v, ttl)
    \/ \E k \in cfg.keys : PersistentCache_Delete(t, k)
    \/ PersistentCache_Flush(t)

persistentStep(t) ==
    \/ PersistentCache_Get_load(t) \/ PersistentCache_Set_store(t) \/ PersistentCache_Delete_store(t)
    \/ PersistentCache_Flush_store(t)

cacheCall(t) ==
    \/ \E k \in cfg.keys : Cache_Get(t, k)
    \/ \E k \in cfg.keys : \E v \in ValuesFor(k, cfg.vals) : \E ttl \in cfg.ttls : Cache_Set(t, k, v, ttl)
    \/ \E k \in cfg.keys : Cache_Delete(t, k)

cacheStep(t) ==
    \/ Cache_Get_load(t) \/ Cache_Set_store(t) \/ Cache_Delete_store(t)

\* A single caller of a memory-only cache, the history of its reads recorded.
Init == InitWith([Config("MemoryCache", {1}, Size, Keys, FewVals) EXCEPT !.track = TRUE], NoFiles)
Next == \E t \in Threads : memCall(t) \/ memStep(t) \/ Return(t)
Spec == Init /\ [][Next]_vars

\* Two concurrent callers of a memory-only cache.
InitConc == InitWith(Config("MemoryCache", Threads, ConcSize, 1..ConcKeys, FewVals), NoFiles)
NextConc == \E t \in Threads : memCall(t) \/ memStep(t) \/ Return(t)
SpecConc == InitConc /\ [][NextConc]_vars

\* A single caller of a memory-only cache whose entries expire.
InitTTL ==
    InitWith([Config("MemoryCache", {1}, ConcSize, 1..ConcKeys, NumVals) EXCEPT !.ttls = TTLs], NoFiles)
NextTTL == Tick \/ \E t \in Threads : memCall(t) \/ memStep(t) \/ Return(t)
SpecTTL == InitTTL /\ [][NextTTL]_vars

\* A single caller of each coordinator: MemoryCache, PersistentCache, and
\* Cache with and without a persistence tier.
InitTier ==
    \E kind \in {"MemoryCache", "PersistentCache", "Cache"} : \E p \in BOOLEAN :
        /\ p = (kind # "MemoryCache") \/ kind = "Cache"
        /\ InitWith([Config(kind, {1}, TierSize, Keys, NumVals) EXCEPT !.persist = p, !.snap = TRUE],
                    NoFiles)
NextTier ==
    \E t \in Threads :
        \/ memCall(t) \/ persistentCall(t) \/ cacheCall(t)
        \/ memStep(t) \/ persistentStep(t) \/ cacheStep(t)
        \/ Return(t)
SpecTier == InitTier /\ [][NextTier]_vars

\* Two concurrent callers of a PersistentCache built over a store that holds
\* a value from an earlier run; every Set writes a new value.
OldFiles == [k \in Keys |-> IF k = 1 THEN [present |-> TRUE, value |-> <<k, 0>>, expiry |-> ZeroTime]
                            ELSE NoFile]
InitTierConc ==
    InitWith([Config("PersistentCache", Threads, ConcSize, 1..ConcKeys, FewVals)
                 EXCEPT !.versions = TRUE], OldFiles)
NextTierConc ==
    \E t \in Threads :
        \/ persistentCall(t) \/ memStep(t) \/ persistentStep(t) \/ Return(t)
SpecTierConc == InitTierConc /\ [][NextTierConc]_vars

\* A single caller of a Cache without persistence whose entries expire and
\* who calls Cleanup.
InitClean ==
    InitWith([Config("Cache", {1}, Size, Keys, FewVals) EXCEPT !.persist = FALSE, !.ttls = TTLs],
             NoFiles)
NextClean ==
    \/ Tick
    \/ \E t \in Threads :
          \/ cacheCall(t) \/ Cache_Cleanup(t)
          \/ get_lookup(t) \/ get_expiry(t) \/ get_freq(t) \/ get_store(t) \/ get_value(t)
          \/ set_begin(t) \/ set_loop(t) \/ evict_small(t) \/ evict_main(t) \/ set_insert(t)
          \/ del(t) \/ cleanup(t)
          \/ cacheStep(t)
          \/ Return(t)
SpecClean == InitClean /\ [][NextClean]_vars

\* A single caller of a coordinator over a persistence tier: a Cache, or a
\* PersistentCache that is also written with SetAsync.
InitAsync ==
    \E kind \in {"PersistentCache", "Cache"} :
        InitWith(Config(kind, {1}, TierSize, Keys, FewVals), NoFiles)
NextAsync ==
    \/ asyncStore
    \/ \E t \in Threads :
          \/ persistentCall(t) \/ cacheCall(t)
          \/ \E k \in cfg.keys : \E v \in ValuesFor(k, cfg.vals) : \E ttl \in cfg.ttls :
                PersistentCache_SetAsync(t, k, v, ttl)
          \/ memStep(t) \/ persistentStep(t) \/ cacheStep(t) \/ PersistentCache_SetAsync_go(t)
          \/ Return(t)
SpecAsync == InitAsync /\ [][NextAsync]_vars

\* A single caller who only writes with SetAsync, two values to choose from
\* for every key, while the goroutines of the writes run.
InitWrites ==
    InitWith([Config("PersistentCache", {1}, TierSize, 1..ConcKeys, NumVals)
                EXCEPT !.writes = TRUE], NoFiles)
NextWrites ==
    \/ asyncStore
    \/ \E t \in Threads :
          \/ \E k \in cfg.keys : \E v \in ValuesFor(k, cfg.vals) : \E ttl \in cfg.ttls :
                PersistentCache_SetAsync(t, k, v, ttl)
          \/ set_begin(t) \/ set_loop(t) \/ evict_small(t) \/ evict_main(t) \/ set_insert(t)
          \/ PersistentCache_SetAsync_go(t)
          \/ Return(t)
SpecWrites == InitWrites /\ [][NextWrites]_vars

\* A single caller who reads and writes a cache over a persistence tier,
\* with entries that expire in both tiers.
InitStale ==
    \E kind \in {"PersistentCache", "Cache"} :
        InitWith([Config(kind, {1}, TierSize, 1..ConcKeys, FewVals) EXCEPT !.ttls = TTLs], NoFiles)
NextStale ==
    \/ Tick
    \/ \E t \in Threads :
          \/ \E k \in cfg.keys : PersistentCache_Get(t, k)
          \/ \E k \in cfg.keys : Cache_Get(t, k)
          \/ \E k \in cfg.keys : \E v \in ValuesFor(k, cfg.vals) : \E ttl \in cfg.ttls :
                PersistentCache_Set(t, k, v, ttl)
          \/ \E k \in cfg.keys : \E v \in ValuesFor(k, cfg.vals) : \E ttl \in cfg.ttls :
                Cache_Set(t, k, v, ttl)
          \/ get_lookup(t) \/ get_expiry(t) \/ get_freq(t) \/ get_store(t) \/ get_value(t)
          \/ set_begin(t) \/ set_loop(t) \/ evict_small(t) \/ evict_main(t) \/ set_insert(t)
          \/ PersistentCache_Get_load(t) \/ PersistentCache_Set_store(t)
          \/ Cache_Get_load(t) \/ Cache_Set_store(t)
          \/ Return(t)
SpecStale == InitStale /\ [][NextStale]_vars

\* A single caller who reads and writes a cache over a persistence tier that
\* holds an older value of every key, while the warmup goroutine runs.
WarmFiles == [k \in Keys |-> [present |-> TRUE, value |-> <<k, 0>>, expiry |-> ZeroTime]]
InitWarm ==
    \E kind \in {"PersistentCache", "Cache"} : \E limit \in 1..WarmupLimit :
        /\ cfg = [Config(kind, {1}, TierSize, 1..ConcKeys, FewVals) EXCEPT !.warmup = limit]
        /\ shards = newS3FIFO(TierSize)
        /\ mu = [i \in ShardIdx |-> NoThread]
        /\ now = 1
        /\ store = WarmFiles
        /\ pc = [t \in Threads |-> IF t = Warmer THEN "warm_walk" ELSE "idle"]
        /\ loc = [t \in Threads |-> IF t = Warmer THEN [Idle EXCEPT !.op = "warmup", !.start = now]
                                     ELSE Idle]
        /\ trk = TrkNone
        /\ hist = HistNone
        /\ async = {}
NextWarm ==
    \E t \in Threads :
        \/ \E k \in cfg.keys : PersistentCache_Get(t, k)
        \/ \E k \in cfg.keys : Cache_Get(t, k)
        \/ \E k \in cfg.keys : \E v \in ValuesFor(k, cfg.vals) : \E ttl \in cfg.ttls :
              PersistentCache_Set(t, k, v, ttl)
        \/ \E k \in cfg.keys : \E v \in ValuesFor(k, cfg.vals) : \E ttl \in cfg.ttls :
              Cache_Set(t, k, v, ttl)
        \/ get_lookup(t) \/ get_expiry(t) \/ get_freq(t) \/ get_store(t) \/ get_value(t)
        \/ set_begin(t) \/ set_loop(t) \/ evict_small(t) \/ evict_main(t) \/ set_insert(t)
        \/ PersistentCache_Get_load(t) \/ PersistentCache_Set_store(t)
        \/ Cache_Get_load(t) \/ Cache_Set_store(t)
        \/ filePersist_LoadRecent_walk(t) \/ doWarmup(t)
        \/ Return(t)
SpecWarm == InitWarm /\ [][NextWarm]_vars

\* A single caller who writes to a cache over a persistence tier and closes
\* it, while the warmup goroutine runs.
NextClose ==
    \E t \in Threads :
        \/ PersistentCache_Close(t) \/ Cache_Close(t)
        \/ \E k \in cfg.keys : \E v \in ValuesFor(k, cfg.vals) : \E ttl \in cfg.ttls :
              PersistentCache_Set(t, k, v, ttl)
        \/ \E k \in cfg.keys : \E v \in ValuesFor(k, cfg.vals) : \E ttl \in cfg.ttls :
              Cache_Set(t, k, v, ttl)
        \/ set_begin(t) \/ set_loop(t) \/ evict_small(t) \/ evict_main(t) \/ set_insert(t)
        \/ PersistentCache_Set_store(t) \/ Cache_Set_store(t)
        \/ filePersist_LoadRecent_walk(t) \/ doWarmup(t)
        \/ Return(t)
SpecClose == InitWarm /\ [][NextClose]_vars

\* Two concurrent callers who only write, to a cache over a persistence tier.
InitSets ==
    \E kind \in {"PersistentCache", "Cache"} :
        InitWith(Config(kind, Threads, ConcSize, 1..ConcKeys, NumVals), NoFiles)
NextSets ==
    \E t \in Threads :
        \/ \E k \in cfg.keys : \E v \in ValuesFor(k, cfg.vals) : \E ttl \in cfg.ttls :
              PersistentCache_Set(t, k, v, ttl)
        \/ \E k \in cfg.keys : \E v \in ValuesFor(k, cfg.vals) : \E ttl \in cfg.ttls :
              Cache_Set(t, k, v, ttl)
        \/ set_begin(t) \/ set_loop(t) \/ evict_small(t) \/ evict_main(t) \/ set_insert(t)
        \/ PersistentCache_Set_store(t) \/ Cache_Set_store(t)
        \/ Return(t)
SpecSets == InitSets /\ [][NextSets]_vars

\* A single caller who only writes, with every kind of TTL, to a cache of each
\* kind built with and without a default TTL.
CallTTLs == (0 - 1)..MaxTTL
DefaultTTLs == {0, MaxTTL + 1}
InitExpiry ==
    \E kind \in {"MemoryCache", "PersistentCache", "Cache"} : \E d \in DefaultTTLs :
        InitWith([Config(kind, {1}, TierSize, 1..ConcKeys, FewVals)
                     EXCEPT !.defaultTTL = d, !.ttls = CallTTLs], NoFiles)
NextExpiry ==
    \/ Tick
    \/ \E t \in Threads :
          \/ \E k \in cfg.keys : \E v \in ValuesFor(k, cfg.vals) : \E ttl \in cfg.ttls :
                \/ MemoryCache_Set(t, k, v, ttl)
                \/ PersistentCache_Set(t, k, v, ttl)
                \/ Cache_Set(t, k, v, ttl)
          \/ set_begin(t) \/ set_loop(t) \/ evict_small(t) \/ evict_main(t) \/ set_insert(t)
          \/ PersistentCache_Set_store(t) \/ Cache_Set_store(t)
          \/ Return(t)
SpecExpiry == InitExpiry /\ [][NextExpiry]_vars

\* Two concurrent callers of GetOrSet and Delete on a memory-only cache.
InitHerd == InitWith(Config("MemoryCache", Threads, ConcSize, 1..ConcKeys, NumVals), NoFiles)
NextHerd ==
    \E t \in Threads :
        \/ \E k \in cfg.keys : \E ttl \in cfg.ttls : MemoryCache_GetOrSet(t, k, ttl)
        \/ \E k \in cfg.keys : MemoryCache_Delete(t, k)
        \/ get_lookup(t) \/ get_expiry(t) \/ get_freq(t) \/ get_store(t) \/ get_value(t)
        \/ MemoryCache_GetOrSet_load(t)
        \/ set_begin(t) \/ set_loop(t) \/ evict_small(t) \/ evict_main(t) \/ set_insert(t)
        \/ del(t)
        \/ Return(t)
SpecHerd == InitHerd /\ [][NextHerd]_vars

\* A single caller of the single-lock s3fifo.
InitLegacy ==
    /\ cfg = Config("s3fifo", {1}, Size, Keys, FewVals)
    /\ shards = [i \in ShardIdx |-> bdcache_newS3FIFO(Size)]
    /\ mu = [i \in ShardIdx |-> NoThread]
    /\ now = 1
    /\ store = NoFiles
    /\ pc = [t \in Threads |-> "idle"]
    /\ loc = [t \in Threads |-> Idle]
    /\ trk = TrkNone
    /\ hist = HistNone
    /\ async = {}
NextLegacy ==
    \E t \in Threads :
        \/ \E k \in cfg.keys : S3fifo_get(t, k)
        \/ \E k \in cfg.keys : \E v \in ValuesFor(k, cfg.vals) : S3fifo_set(t, k, v, 0)
        \/ \E k \in cfg.keys : S3fifo_delete(t, k)
        \/ Return(t)
SpecLegacy == InitLegacy /\ [][NextLegacy]_vars

\* A single caller of a memory-only cache, or of a single-lock s3fifo, whose
\* entries expire.
InitExpired ==
    \/ InitTTL
    \/ /\ cfg = [Config("s3fifo", {1}, ConcSize, 1..ConcKeys, FewVals) EXCEPT !.ttls = TTLs]
       /\ shards = [i \in ShardIdx |-> bdcache_newS3FIFO(ConcSize)]
       /\ mu = [i \in ShardIdx |-> NoThread]
       /\ now = 1
       /\ store = NoFiles
       /\ pc = [t \in Threads |-> "idle"]
       /\ loc = [t \in Threads |-> Idle]
       /\ trk = TrkNone
       /\ hist = HistNone
       /\ async = {}
NextExpired ==
    \/ Tick
    \/ \E t \in Threads :
          \/ memCall(t) \/ memStep(t)
          \/ \E k \in cfg.keys : S3fifo_get(t, k)
          \/ \E k \in cfg.keys : \E v \in ValuesFor(k, cfg.vals) : \E ttl \in cfg.ttls :
                S3fifo_set(t, k, v, IF ttl = 0 THEN 0 ELSE now + ttl)
          \/ Return(t)
SpecExpired == InitExpired /\ [][NextExpired]_vars

\* Two concurrent callers of a cache of two shards, memory-only or over a
\* persistence tier: the keys fall into both shards, and Flush and Len go
\* through the shards one after another.
TwoShards == 2 * minEntriesPerShard
InitLocks ==
    \E kind \in {"MemoryCache", "PersistentCache"} :
        InitWith(Config(kind, Threads, TwoShards, 1..ConcKeys, FewVals), NoFiles)
NextLocks ==
    \E t \in Threads :
        \/ \E k \in cfg.keys : \E v \in ValuesFor(k, cfg.vals) : \E ttl \in cfg.ttls :
              MemoryCache_Set(t, k, v, ttl)
        \/ MemoryCache_Flush(t) \/ MemoryCache_Len(t)
        \/ \E k \in cfg.keys : PersistentCache_Get(t, k)
        \/ \E k \in cfg.keys : \E v \in ValuesFor(k, cfg.vals) : \E ttl \in cfg.ttls :
              PersistentCache_Set(t, k, v, ttl)
        \/ PersistentCache_Flush(t) \/ PersistentCache_Len(t)
        \/ get_lookup(t) \/ get_expiry(t) \/ get_freq(t) \/ get_store(t) \/ get_value(t)
        \/ set_begin(t) \/ set_loop(t) \/ set_insert(t)
        \/ flush(t) \/ len(t)
        \/ PersistentCache_Get_load(t) \/ PersistentCache_Set_store(t)
        \/ PersistentCache_Flush_store(t)
        \/ Return(t)
SpecLocks == InitLocks /\ [][NextLocks]_vars

\* The ghost of one shard, for every ghost capacity up to MaxGhostCap: the
\* evictions of evictFromSmall hand it one key after another, each a key that
\* is neither resident nor remembered by the ghost (an entry enters small
\* only when the ghost does not hold its key, and main evicts without the
\* ghost).
GhostKeys == 1..(2 * MaxGhostCap)
addToGhost(t, key) ==
    /\ t \in cfg.threads /\ pc[t] = "idle"
    /\ key \notin shards[0].ghostActive \cup shards[0].ghostAging
    /\ shards' = [shards EXCEPT ![0] = shard_addToGhost(shards[0], key)]
    /\ loc' = [loc EXCEPT ![t].key = key]
    /\ UNCHANGED <<cfg, async, mu, now, store, pc, trk, hist>>
InitGhost ==
    \E g \in 1..MaxGhostCap :
        InitWith(Config("MemoryCache", {1}, (g * 100) \div ghostRatioPct, {}, FewVals), NoFiles)
NextGhost == \E t \in Threads : \E k \in GhostKeys : addToGhost(t, k)
SpecGhost == InitGhost /\ [][NextGhost]_vars

\* A single caller who fills a single-lock s3fifo of LegacyCap entries (its
\* small queue then has room for more than one) and goes two keys beyond:
\* the caller sets each key once, in the order of the keys, and reads the
\* oldest entry of small that has not been read.
fillNext(st) ==
    LET known == {k \in cfg.keys : st.entries[k] # Nil \/ k \in Range(st.ghost)}
    IN IF known # cfg.keys THEN {Cardinality(known) + 1} ELSE {}
fillRead(st) ==
    LET unread == SelectSeq(st.small, LAMBDA e : st.obj[e].freq = 0)
    IN IF unread = <<>> THEN {} ELSE {st.obj[Head(unread)].key}
InitFill ==
    /\ cfg = Config("s3fifo", {1}, LegacyCap, LegacyKeys, FewVals)
    /\ shards = [i \in ShardIdx |-> bdcache_newS3FIFO(LegacyCap)]
    /\ mu = [i \in ShardIdx |-> NoThread]
    /\ now = 1
    /\ store = NoFiles
    /\ pc = [t \in Threads |-> "idle"]
    /\ loc = [t \in Threads |-> Idle]
    /\ trk = TrkNone
    /\ hist = HistNone
    /\ async = {}
NextFill ==
    \E t \in Threads :
        \/ \E k \in fillRead(shards[0]) : S3fifo_get(t, k)
        \/ \E k \in fillNext(shards[0]) : \E v \in ValuesFor(k, cfg.vals) : S3fifo_set(t, k, v, 0)
        \/ Return(t)
SpecFill == InitFill /\ [][NextFill]_vars

\* ------------------------------------------------------------------------
\* Properties
\* ------------------------------------------------------------------------
residentCount(st) == Cardinality({k \in Keys : st.entries[k] # Nil})
evicting(t) == pc[t] \in {"evict_small", "evict_main"}
returned(t, op) == pc[t] = "ret" /\ loc[t].op = op

\* C1: under every interleaving of set, get, delete and flush, a shard never
\* holds more keys than its capacity, and the length of the cache never
\* exceeds the number of shards times the capacity of one shard.
C1_CapacityBound ==
    /\ \A i \in ShardIdx : residentCount(shards[i]) <= shards[i].capacity
    /\ s3fifo_len <= numShardsOf(cfg.size) * shardCapOf(cfg.size)

\* A set has evicted to make room in a full shard while another thread is
\* in the middle of an operation.
C1_Witness ==
    \E t \in cfg.threads : \E u \in cfg.threads \ {t} :
        /\ returned(t, "Set")
        /\ pc[u] \notin {"idle", "ret"}
        /\ residentCount(shards[shardOf(t)]) = shards[shardOf(t)].capacity
        /\ shards[shardOf(t)].ghostAging # {}

\* C2: when the key validates and the persistence set fails, Set returns the
\* error that wraps the failure and leaves the value in memory; the Get of
\* the same key that follows returns that value.
C2_FailedPersistKeepsMemory ==
    \A t \in cfg.threads :
        /\ returned(t, "Set") /\ loc[t].fail = "store"
           => /\ loc[t].err = "persistence store failed"
              /\ LET st == shards[shardOf(t)]
                 IN /\ st.entries[loc[t].key] # Nil
                    /\ st.obj[st.entries[loc[t].key]].value = loc[t].value
        /\ ( /\ returned(t, "Get")
             /\ trk.stage = "set" /\ trk.key = loc[t].key /\ trk.sfail = "store"
             /\ (trk.exp = 0 \/ now <= trk.exp) )
           => loc[t].found /\ loc[t].val = trk.val /\ loc[t].err = "nil"

\* The Get follows a Set whose persistence write failed while the file of
\* the key held another value.
C2_Witness ==
    \E t \in cfg.threads :
        /\ returned(t, "Get")
        /\ trk.stage = "set" /\ trk.key = loc[t].key /\ trk.sfail = "store"
        /\ trk.err = "persistence store failed"
        /\ loc[t].found /\ loc[t].val = trk.val
        /\ store[loc[t].key].present /\ store[loc[t].key].value # trk.val

\* C3: a Get that starts after a Set of its key has returned without error
\* never finds a value older than the one that Set wrote, whatever other
\* Gets and Sets are in flight.
C3_NoOlderValue ==
    \A t \in cfg.threads :
        returned(t, "Get") /\ loc[t].found /\ loc[t].val[1] = loc[t].key
        => loc[t].val \notin loc[t].stale

\* C4: a get that reports found returns a value that was written for the key
\* it was asked for, under every interleaving with delete, eviction and the
\* recycling of entries.
C4_FoundValueIsOfKey ==
    \A t \in cfg.threads :
        returned(t, "Get") /\ loc[t].found => loc[t].val \in ValuesOf(loc[t].key)

\* C5: a Get whose key the persistence tier rejects, or whose persistence
\* read fails, returns missing and no error.
C5_ReadsNeverFail ==
    \A t \in cfg.threads :
        returned(t, "Get") /\ loc[t].fail \in {"validate", "load"}
        => ~loc[t].found /\ loc[t].err = "nil"

\* C6: a get that immediately follows a set of the same key, the value not
\* yet expired, finds the value that set wrote.
C6_SetThenGet ==
    \A t \in cfg.threads :
        ( /\ returned(t, "Get")
          /\ trk.stage = "set" /\ trk.key = loc[t].key
          /\ (trk.exp = 0 \/ now <= trk.exp) )
        => loc[t].found /\ loc[t].val = trk.val

\* The get follows a set with a TTL into a full cache that has evicted, and
\* comes at the very instant of the expiry.
C6_Witness ==
    \E t \in cfg.threads :
        /\ returned(t, "Get")
        /\ trk.stage = "set" /\ trk.key = loc[t].key
        /\ trk.exp # 0 /\ now = trk.exp
        /\ loc[t].found /\ loc[t].val = trk.val
        /\ residentCount(shards[shardOf(t)]) = shards[shardOf(t)].capacity
        /\ shards[shardOf(t)].ghostAging # {}

C8_ScanKeepsHot ==
    [][\A t \in cfg.threads : \A k \in Keys :
          ( /\ evicting(t)
            /\ loc[t].key \notin hist.read
            /\ k \in hist.hot )
          => k \in resident']_vars

\* C8, amended: when the shard is full, small holds at least small_capacity
\* entries and one of them has frequency 0, the insertion of a key that was
\* not resident leaves every key resident that was read since it entered.
C8_ScanKeepsHotWithColdVictim ==
    \A t \in cfg.threads :
        ( /\ returned(t, "Set")
          /\ ~loc[t].pre.res
          /\ loc[t].pre.full /\ loc[t].pre.smallFull /\ loc[t].pre.cold )
        => loc[t].pre.hot \subseteq resident

\* Such an insertion has evicted, and a hot key was there to lose.
C8_Witness ==
    \E t \in cfg.threads :
        /\ returned(t, "Set")
        /\ ~loc[t].pre.res
        /\ loc[t].pre.full /\ loc[t].pre.smallFull /\ loc[t].pre.cold
        /\ loc[t].pre.hot # {}
        /\ loc[t].key \notin hist.read
        /\ residentCount(shards[shardOf(t)]) = shards[shardOf(t)].capacity

\* C9 as stated: eviction does not remove a key that was read since the
\* previous eviction scan of its shard returned.
C9_ReadSinceScanSurvives ==
    [][\A t \in cfg.threads : \A k \in Keys :
          evicting(t) /\ k \in hist.readSince => k \in resident']_vars

\* C9, amended: the first time an eviction loop examines a key after a read
\* of it, the key stays resident: it moves from small to main, or to the back
\* of main with its frequency one lower.
C9_FirstExaminationKeeps ==
    [][\A t \in cfg.threads :
          LET st == shards[shardOf(t)]
          IN /\ ( pc[t] = "evict_small" /\ Len(st.small) > 0
                  /\ st.obj[front(st.small)].key \in hist.fresh )
                => st.obj[front(st.small)].key \in resident'
             /\ ( pc[t] = "evict_main" /\ Len(st.main) > 0
                  /\ st.obj[front(st.main)].key \in hist.fresh )
                => st.obj[front(st.main)].key \in resident']_vars

\* A key was read after an earlier scan had returned; the eviction loop of
\* the running scan has examined it at the front of main and has kept it.
C9_Witness ==
    \E t \in cfg.threads : \E k \in Keys :
        LET st == shards[shardOf(t)]
        IN /\ pc[t] = "evict_main"
           /\ k \in hist.readSince /\ k \notin hist.fresh
           /\ st.entries[k] # Nil
           /\ st.entries[k] \in Range(st.main)
           /\ ~st.obj[st.entries[k]].inSmall
           /\ st.obj[st.entries[k]].freq = 0

queueNodes(st) == st.small \o st.main
C11_ShardConsistent ==
    \A i \in ShardIdx :
        LET st == shards[i]
            q  == queueNodes(st)
        IN /\ \A m, n \in 1..Len(q) : m # n => q[m] # q[n] /\ st.obj[q[m]].key # st.obj[q[n]].key
           /\ \A n \in 1..Len(q) : /\ st.obj[q[n]].key \in Keys
                                   /\ st.entries[st.obj[q[n]].key] = q[n]
           /\ Range(st.small) \cap Range(st.main) = {}
           /\ \A k \in Keys : st.entries[k] # Nil =>
                  IF st.obj[st.entries[k]].inSmall
                  THEN st.entries[k] \in Range(st.small)
                  ELSE st.entries[k] \in Range(st.main)

\* A set and a delete of the same key, called by two threads, have both run
\* to their return while the other was in flight.
C11_Witness ==
    \E t \in cfg.threads : \E u \in cfg.threads \ {t} :
        /\ returned(t, "Set") /\ returned(u, "Delete")
        /\ loc[t].key = loc[u].key

\* C12: a get of a resident entry whose expiry instant e has not passed when
\* the get returns finds its value; a get called after e reports it missing,
\* as long as the entry has not been written again; a get of a resident entry
\* with no expiry finds its value whatever the time.
C12_ExpiryBoundary ==
    \A t \in cfg.threads :
        LET st == shards[shardOf(t)]
            e  == st.entries[loc[t].key]
            x  == st.obj[e].expiryNano
        IN returned(t, "Get") /\ e # Nil
           => /\ (x = 0 \/ now <= x) => loc[t].found /\ loc[t].val = st.obj[e].value
              /\ (x # 0 /\ loc[t].start > x) => ~loc[t].found

\* A get has reported an entry missing that is still in the shard, its expiry
\* instant passed before the get was called.
C12_Witness ==
    \E t \in cfg.threads :
        LET st == shards[shardOf(t)]
            e  == st.entries[loc[t].key]
        IN /\ returned(t, "Get") /\ e # Nil
           /\ st.obj[e].expiryNano # 0 /\ loc[t].start = st.obj[e].expiryNano + 1
           /\ ~loc[t].found

\* C13: cleanup removes exactly the resident entries whose expiry instant has
\* passed and returns their number; the entries not yet expired and the
\* entries without expiry stay, with their value, in the map and in their
\* queue, and the length decreases by the number returned.
expiredKeys == {k \in resident : isExpired(shards[shardIndex(k)], k, now)}
entryOf(shs, k) == shs[shardIndex(k)].obj[shs[shardIndex(k)].entries[k]]
C13_CleanupRemovesExpired ==
    [][\A t \in cfg.threads :
          pc[t] = "cleanup" /\ pc'[t] # "cleanup"
          => /\ resident' = resident \ expiredKeys
             /\ loc'[t].n = Cardinality(expiredKeys)
             /\ s3fifo_len' = s3fifo_len - loc'[t].n
             /\ \A k \in resident' :
                   /\ entryOf(shards', k).value = entryOf(shards, k).value
                   /\ entryOf(shards', k).expiryNano = entryOf(shards, k).expiryNano
                   /\ shards'[shardIndex(k)].entries[k] \in
                         Range(queueNodes(shards'[shardIndex(k)]))]_vars

\* A cleanup has removed an expired entry and has left an entry at the very
\* instant of its expiry.
C13_Witness ==
    \E t \in cfg.threads : \E k \in resident :
        /\ returned(t, "Cleanup") /\ loc[t].n = 1
        /\ entryOf(shards, k).expiryNano = now

\* C14: when flush has returned to a caller with no other operation in flight,
\* the length is 0, both queues and the ghost of every shard are empty, the
\* number flush returned is the number of entries that were resident when it
\* was called, and the get that follows of a key that was present before the
\* flush reports it missing.
C14_FlushEmpties ==
    \A t \in cfg.threads :
        /\ returned(t, "Flush")
           => /\ s3fifo_len = 0
              /\ \A i \in ShardIdx :
                    /\ shards[i].small = <<>> /\ shards[i].main = <<>>
                    /\ shards[i].ghostActive = {} /\ shards[i].ghostAging = {}
                    /\ shards[i].ghostCount = 0
              /\ loc[t].n = Cardinality(loc[t].had)
        /\ returned(t, "Get") /\ trk.stage = "flush" /\ loc[t].key \in trk.had
           => ~loc[t].found

\* The flush emptied a full cache, and the get that follows asks for a key
\* that was resident.
C14_Witness ==
    \E t \in cfg.threads :
        /\ returned(t, "Get") /\ trk.stage = "flush" /\ loc[t].key \in trk.had
        /\ Cardinality(trk.had) = shardCapOf(cfg.size)
        /\ ~loc[t].found

\* A Get that missed memory, for a key the persistence tier holds, and whose
\* read of the persistence tier did not fail.
loadedGet(t) ==
    /\ returned(t, "Get") /\ cfg.persist
    /\ loc[t].key \notin loc[t].had
    /\ store[loc[t].key].present
    /\ loc[t].fail = "none"
promotedValue(t) ==
    /\ loc[t].found /\ loc[t].val = store[loc[t].key].value /\ loc[t].err = "nil"
    /\ loc[t].key \in resident
    /\ entryOf(shards, loc[t].key).value = store[loc[t].key].value
\* The Get that follows a promoting Get of the same key finds the value in
\* memory and does not go to the persistence tier.
servedFromMemory(t) ==
    returned(t, "Get") /\ trk.stage = "promoted" /\ trk.key = loc[t].key
    => loc[t].found /\ loc[t].val = trk.val /\ loc[t].value = ZeroV /\ loc[t].fail = "none"

C16_SetAsyncReturn ==
    [][\A t \in cfg.threads :
          pc[t] # "ret" /\ pc'[t] = "ret" /\ loc'[t].op = "SetAsync"
          => /\ store' = store
             /\ IF ~filePersist_ValidateKey(loc'[t].key)
                THEN loc'[t].err = "invalid key"
                ELSE /\ loc'[t].err = "nil"
                     /\ loc'[t].key \in resident'
                     /\ entryOf(shards', loc'[t].key).value = loc'[t].value
                     /\ [key |-> loc'[t].key, value |-> loc'[t].value,
                         expiry |-> loc'[t].texp] \in async']_vars

\* SetAsync has returned nil, the value is in memory, and the write of its
\* goroutine has failed: the persistence tier does not hold the value.
C16_Witness ==
    \E t \in cfg.threads :
        /\ returned(t, "SetAsync") /\ loc[t].err = "nil"
        /\ loc[t].key \in resident
        /\ async = {}
        /\ ~store[loc[t].key].present

\* C17: a Delete whose key the persistence tier rejects, or whose persistence
\* delete fails, returns no error, and the key is gone from memory.
C17_DeleteNeverFails ==
    \A t \in cfg.threads :
        returned(t, "Delete") /\ loc[t].fail \in {"validate", "delete"}
        => loc[t].err = "nil" /\ loc[t].key \notin resident

normalizedExpiry(t) ==
    IF loc[t].ttl > 0 THEN loc[t].start + loc[t].ttl
    ELSE IF cfg.defaultTTL > 0 THEN loc[t].start + cfg.defaultTTL
    ELSE 0
C19_TTLNormalization ==
    \A t \in cfg.threads :
        returned(t, "Set") /\ loc[t].fail # "validate" /\ loc[t].ttl >= 0
        => /\ loc[t].key \in resident
           /\ entryOf(shards, loc[t].key).expiryNano = normalizedExpiry(t)
           /\ cfg.persist /\ loc[t].fail = "none"
              => /\ store[loc[t].key].present
                 /\ timeToNano(store[loc[t].key].expiry) = normalizedExpiry(t)

\* A Set with a TTL of its own has returned from a cache that has another
\* default TTL, called after the clock had advanced.
C19_Witness ==
    \E t \in cfg.threads :
        /\ returned(t, "Set") /\ loc[t].ttl > 0
        /\ cfg.defaultTTL > 0 /\ cfg.defaultTTL # loc[t].ttl
        /\ loc[t].start > 1
        /\ entryOf(shards, loc[t].key).expiryNano = loc[t].start + loc[t].ttl

\* C20: a Set with a negative TTL returns an error, and the value is not
\* stored.
C20_NegativeTTLRejected ==
    \A t \in cfg.threads :
        returned(t, "Set") /\ loc[t].ttl < 0
        => /\ loc[t].err # "nil"
           /\ loc[t].key \in resident => entryOf(shards, loc[t].key).value # loc[t].value

\* C21: when two threads call GetOrSet for the same key at the same time, the
\* loader runs for one of them only, and both receive the same value.
ranLoader(t) == loc[t].op = "GetOrSet" /\ loc[t].value # ZeroV
C21_LoaderRunsOnce ==
    \A t \in cfg.threads : \A u \in cfg.threads \ {t} :
        ( /\ returned(t, "GetOrSet") /\ returned(u, "GetOrSet")
          /\ loc[t].key = loc[u].key )
        => /\ ~(ranLoader(t) /\ ranLoader(u))
           /\ loc[t].val = loc[u].val

\* C22: in every shard the small and the main queue partition the resident
\* keys: every key of the map is in the queue its inSmall flag names and not
\* in the other, every node of a queue is the entry of a resident key, and
\* the map has as many keys as the two queues have nodes.
C22_QueuesPartition ==
    \A i \in ShardIdx :
        LET st == shards[i]
        IN /\ residentCount(st) = Len(st.small) + Len(st.main)
           /\ \A k \in Keys : st.entries[k] # Nil =>
                 /\ st.obj[st.entries[k]].inSmall <=> st.entries[k] \in Range(st.small)
                 /\ ~st.obj[st.entries[k]].inSmall <=> st.entries[k] \in Range(st.main)
           /\ \A e \in Range(st.small) \cup Range(st.main) :
                 \E k \in Keys : st.entries[k] = e /\ st.obj[e].key = k

\* A cleanup has removed an expired entry from a shard that held entries in
\* both queues.
C22_Witness ==
    \E t \in cfg.threads :
        /\ returned(t, "Cleanup") /\ loc[t].n = 1
        /\ Len(shards[0].main) = 1 /\ Len(shards[0].small) = 0
        /\ shards[0].ghostAging # {}

\* C23: in the single-lock s3fifo, the set of a key that is not resident,
\* when the length equals the capacity, evicts exactly one resident key and
\* leaves the length at the capacity.
C23_SetAtCapacityEvictsOne ==
    [][\A t \in cfg.threads :
          ( /\ cfg.kind = "s3fifo"
            /\ pc[t] = "idle" /\ pc'[t] = "ret" /\ loc'[t].op = "Set"
            /\ loc'[t].key \notin resident
            /\ s3fifo_len = shards[0].capacity )
          => /\ s3fifo_len' = shards[0].capacity
             /\ Cardinality(resident \ resident') = 1]_vars

\* C24: every entry's frequency counter stays within [0, maxFreq] over every
\* interleaving of get, set and eviction steps, and only an eviction step
\* lowers the counter of a resident key: a read hit never does.
readStores == \E u \in cfg.threads : pc[u] = "get_store" /\ pc'[u] = "get_value"
C24_FrequencyCounter ==
    [][/\ \A i \in ShardIdx : \A e \in EntryIds : shards'[i].obj[e].freq \in 0..maxFreq
       /\ \A k \in resident \cap resident' :
             entryOf(shards', k).freq < entryOf(shards, k).freq
             => /\ \E t \in cfg.threads : evicting(t)
                /\ ~readStores]_vars

\* C25: every set terminates, and one call of evict() removes at most one
\* key from the map.  Termination is shown by a measure that is bounded
\* below, that no step raises while a set is in its capacity loop, and that
\* every iteration of evictFromSmall and evictFromMain lowers (the loop
\* test that finds its queue empty ends the call, and the capacity loop only
\* ever calls evict() on a queue that has an entry): the queued
\* entries weighted by their frequency (an entry of small weighs one more
\* than in main, so a promotion lowers it), plus the most that each read in
\* flight can still add by its store.  The capacity loop calls evict() in
\* every pass, so it ends too.  An iteration removes at most one key, and
\* the iteration that removes a key is the last of its call.
inCapacityLoop(t) == pc[t] \in {"set_loop", "evict_small", "evict_main"}
readsInFlight(p) == {u \in Threads : p[u] \in {"get_expiry", "get_freq", "get_store"}}
queueWeight(st) ==
    LET RECURSIVE w(_, _)
        w(q, base) == IF q = <<>> THEN 0 ELSE st.obj[Head(q)].freq + base + w(Tail(q), base)
    IN w(st.small, 2) + w(st.main, 1)
evictMeasure(shs, p, i) == queueWeight(shs[i]) + (maxFreq + 1) * Cardinality(readsInFlight(p))
evictQueue(shs, p, i) == IF p = "evict_small" THEN shs[i].small ELSE shs[i].main
C25_SetTerminates ==
    [][\A t \in cfg.threads :
          LET i == shardIndex(loc[t].key)
          IN /\ inCapacityLoop(t)
                => /\ evictMeasure(shards', pc', i) <= evictMeasure(shards, pc, i)
                   /\ evictMeasure(shards', pc', i) >= 0
             /\ pc[t] = "set_loop" /\ evicting(t)' => Len(evictQueue(shards, pc'[t], i)) > 0
             /\ evicting(t) /\ (\A u \in Threads \ {t} : pc'[u] = pc[u])
                => /\ Len(evictQueue(shards, pc[t], i)) > 0
                      => evictMeasure(shards', pc', i) < evictMeasure(shards, pc, i)
                   /\ Cardinality(resident \ resident') <= 1
                   /\ resident' # resident => pc'[t] = "set_loop"]_vars
\* A call of evict() has promoted every entry of small and is at the loop
\* test that ends it without an eviction; the shard is still at capacity,
\* so the capacity loop goes on to a second call.
C25_Witness ==
    \E t \in cfg.threads :
        /\ pc[t] = "evict_small"
        /\ shards[shardOf(t)].small = <<>>
        /\ Len(shards[shardOf(t)].main) >= shards[shardOf(t)].capacity

\* C26: once a Get that missed memory and loaded its key from the
\* persistence tier and a Delete of the same key that ran concurrently with
\* it and deleted from both tiers have both returned, the key is not resident
\* in memory.
loadedFromStore(t) == returned(t, "Get") /\ loc[t].found /\ loc[t].value # ZeroV
C26_NoResurrection ==
    \A t \in cfg.threads : \A u \in cfg.threads :
        /\ loadedFromStore(t)
        /\ returned(u, "Delete") /\ loc[u].key = loc[t].key /\ loc[u].fail = "none"
        => loc[t].key \notin resident

\* C27: when warmup has finished and a Set of the caller has returned without
\* error, the memory tier does not hold another value for the key of that
\* Set: warmup has not put the older persisted value over it.
warmupDone == pc[Warmer] = "warm_done"
C27_WarmupKeepsNewer ==
    \A t \in cfg.threads :
        /\ returned(t, "Set") /\ loc[t].err = "nil"
        /\ warmupDone
        /\ loc[t].key \in resident
        => entryOf(shards, loc[t].key).value = loc[t].value

\* C28: once two Sets of the same key with different values that ran
\* concurrently have both returned without error, the key is in memory and
\* in the persistence tier with the same value.
C28_TiersAgreeAfterSets ==
    \A t \in cfg.threads : \A u \in cfg.threads :
        /\ returned(t, "Set") /\ returned(u, "Set")
        /\ loc[t].key = loc[u].key /\ loc[t].value # loc[u].value
        /\ loc[t].err = "nil" /\ loc[u].err = "nil"
        => /\ loc[t].key \in resident
           /\ store[loc[t].key].present
           /\ entryOf(shards, loc[t].key).value = store[loc[t].key].value

\* C29: a call of evict() works on the small queue if and only if it finds
\* |small| >= smallCap, and otherwise on main.  In the sharded s3fifo the
\* capacity loop enters evictFromSmall exactly then; in the single-lock
\* s3fifo the key that a set at capacity evicts was in small exactly then.
evictedKeys == {k \in LegacyKeys : shards[0].entries[k] # Nil /\ shards'[0].entries[k] = Nil}
C29_EvictDispatch ==
    [][\A t \in cfg.threads :
          /\ pc[t] = "set_loop" /\ evicting(t)'
             => (pc'[t] = "evict_small"
                    <=> Len(shards[shardOf(t)].small) >= shards[shardOf(t)].smallCap)
          /\ cfg.kind = "s3fifo" /\ pc[t] = "idle" /\ pc'[t] = "ret" /\ loc'[t].op = "Set"
             => \A k \in evictedKeys :
                   shards[0].obj[shards[0].entries[k]].inSmall
                      <=> Len(shards[0].small) >= shards[0].smallCap]_vars

\* C30: when an eviction step pops the oldest entry of small, an entry with
\* frequency > 0 stays resident with its value, its frequency reset to 0,
\* as the last entry of main and no longer in small, marked as being in
\* main; an entry with frequency 0 leaves the map and the queues and its key
\* is in the ghost.
queueKeys(st, q) == [n \in DOMAIN q |-> st.obj[q[n]].key]
C31_EvictFromMain ==
    [][\A t \in cfg.threads :
          /\ pc[t] = "evict_main" /\ shards[shardOf(t)].main # <<>>
             => LET i   == shardOf(t)
                    st  == shards[i]
                    old == st.obj[front(st.main)]
                    k   == old.key
                    new == shards'[i]
                    e   == new.entries[k]
                IN /\ queueKeys(new, new.small) = queueKeys(st, st.small)
                   /\ new.ghostActive = st.ghostActive /\ new.ghostAging = st.ghostAging
                   /\ IF old.freq > 0
                      THEN /\ e # Nil
                           /\ new.obj[e] = [old EXCEPT !.freq = old.freq - 1]
                           /\ queueKeys(new, new.main) = Append(Tail(queueKeys(st, st.main)), k)
                           /\ resident' = resident
                      ELSE /\ e = Nil
                           /\ resident' = resident \ {k}
                           /\ queueKeys(new, new.main) = Tail(queueKeys(st, st.main))
          /\ cfg.kind = "s3fifo" /\ pc[t] = "idle" /\ pc'[t] = "ret" /\ loc'[t].op = "Set"
             => \A k \in evictedKeys :
                   ~shards[0].obj[shards[0].entries[k]].inSmall
                      => k \notin Range(shards'[0].ghost)]_vars

\* C32: a set of a key that is not resident creates an entry with frequency
\* 0, bound for main if the ghost holds the key and for small otherwise, and
\* links it into that queue; the ghost hit leaves the key in the ghost.  In
\* the single-lock s3fifo, a set of a non-resident key that the ghost holds,
\* below capacity, puts the key into main and leaves it in the ghost.
inGhostOf(st, key) == key \in st.ghostActive \/ key \in st.ghostAging
C32_SetInsertsNewEntry ==
    [][\A t \in cfg.threads :
          /\ pc[t] = "set_begin" /\ shards[shardOf(t)].entries[loc[t].key] = Nil
             => LET st  == shards[shardOf(t)]
                    new == shards'[shardOf(t)]
                    e   == loc'[t].ent
                IN /\ e # Nil
                   /\ new.obj[e].key = loc[t].key
                   /\ new.obj[e].value = loc[t].value
                   /\ new.obj[e].freq = 0
                   /\ new.obj[e].inSmall = ~inGhostOf(st, loc[t].key)
                   /\ new.ghostActive = st.ghostActive
                   /\ new.ghostAging = st.ghostAging
          /\ pc[t] = "set_insert"
             => LET st  == shards[shardOf(t)]
                    new == shards'[shardOf(t)]
                    k   == loc[t].key
                    e   == new.entries[k]
                IN /\ e # Nil
                   /\ new.obj[e].freq = 0
                   /\ new.obj[e].inSmall = st.obj[loc[t].ent].inSmall
                   /\ IF new.obj[e].inSmall
                      THEN /\ queueKeys(new, new.small) = Append(queueKeys(st, st.small), k)
                           /\ queueKeys(new, new.main) = queueKeys(st, st.main)
                      ELSE /\ queueKeys(new, new.main) = Append(queueKeys(st, st.main), k)
                           /\ queueKeys(new, new.small) = queueKeys(st, st.small)
                   /\ new.ghostActive = st.ghostActive
                   /\ new.ghostAging = st.ghostAging
          /\ cfg.kind = "s3fifo" /\ pc[t] = "idle" /\ pc'[t] = "ret" /\ loc'[t].op = "Set"
             => LET st  == shards[0]
                    new == shards'[0]
                    k   == loc'[t].key
                IN st.entries[k] = Nil
                   => /\ new.entries[k] # Nil
                      /\ new.obj[new.entries[k]].freq = 0
                      /\ new.obj[new.entries[k]].inSmall = (k \notin Range(st.ghost))
                      /\ (k \in Range(st.ghost) /\ bdcache_len(st) < st.capacity)
                            => k \in Range(new.ghost)]_vars

\* C33: a set of a resident key puts the new value and expiry into the entry
\* and counts its frequency up (up to the cap), and changes nothing else: the
\* set of resident keys, both queues with the position of every key, every
\* other entry and the ghost stay as they were, and the call goes to no
\* eviction step.
entryObj(st, k) == st.obj[st.entries[k]]
updatedEntry(old, new, value, expiryNano) ==
    /\ new.key = old.key
    /\ new.value = value
    /\ new.expiryNano = expiryNano
    /\ new.inSmall = old.inSmall
    /\ new.freq > old.freq \/ (old.freq >= maxFreq /\ new.freq = old.freq)
C33_SetUpdatesInPlace ==
    [][\A t \in cfg.threads :
          /\ pc[t] = "set_begin" /\ shards[shardOf(t)].entries[loc[t].key] # Nil
             => LET st  == shards[shardOf(t)]
                    new == shards'[shardOf(t)]
                    k   == loc[t].key
                IN /\ new.entries[k] # Nil
                   /\ updatedEntry(entryObj(st, k), entryObj(new, k), loc[t].value, loc[t].exp)
                   /\ resident' = resident
                   /\ \A o \in resident \ {k} : entryObj(new, o) = entryObj(st, o)
                   /\ queueKeys(new, new.small) = queueKeys(st, st.small)
                   /\ queueKeys(new, new.main) = queueKeys(st, st.main)
                   /\ new.ghostActive = st.ghostActive
                   /\ new.ghostAging = st.ghostAging
                   /\ pc'[t] = loc[t].cont
          /\ cfg.kind = "s3fifo" /\ pc[t] = "idle" /\ pc'[t] = "ret" /\ loc'[t].op = "Set"
             /\ shards[0].entries[loc'[t].key] # Nil
             => LET st  == shards[0]
                    new == shards'[0]
                    k   == loc'[t].key
                IN /\ new.entries[k] # Nil
                   /\ updatedEntry(entryObj(st, k), entryObj(new, k), loc'[t].value, loc'[t].exp)
                   /\ \A o \in LegacyKeys \ {k} :
                         /\ (new.entries[o] = Nil) = (st.entries[o] = Nil)
                         /\ st.entries[o] # Nil => entryObj(new, o) = entryObj(st, o)
                   /\ queueKeys(new, new.small) = queueKeys(st, st.small)
                   /\ queueKeys(new, new.main) = queueKeys(st, st.main)
                   /\ new.ghost = st.ghost]_vars

\* C34: when a caller has written a key with SetAsync more than once, every
\* goroutine of those writes has run and none has failed, the persistence
\* tier holds for the key the value of the last SetAsync, which is the value
\* the memory tier holds.
writesSettled == async = {} /\ hist.failed = {} /\ \A t \in cfg.threads : pc[t] = "idle"
C34_AsyncWritesInOrder ==
    writesSettled
    => \A k \in resident :
          /\ store[k].present
          /\ store[k].value = entryOf(shards, k).value

\* C35: a Get reports no value whose expiry had passed when the call began.
\* A hit in memory is reported only for an entry without expiry or with an
\* expiry at or after the start of the call; a value loaded from the
\* persistence tier is reported, and promoted, only with such an expiry, and a
\* file whose expiry has passed is reported as a miss and promotes nothing.
notPassed(x, t) == x = 0 \/ x >= loc[t].start
sameEntries(st, new) ==
    /\ \A k \in Keys : (new.entries[k] = Nil) = (st.entries[k] = Nil)
    /\ \A k \in Keys : st.entries[k] # Nil => entryObj(new, k) = entryObj(st, k)
    /\ queueKeys(new, new.small) = queueKeys(st, st.small)
    /\ queueKeys(new, new.main) = queueKeys(st, st.main)
expiredAt(st, k) ==
    /\ st.entries[k] # Nil
    /\ entryObj(st, k).expiryNano # 0
    /\ now > entryObj(st, k).expiryNano
C36_ExpiredGetMutatesNothing ==
    [][\A t \in cfg.threads :
          /\ pc[t] = "get_expiry" /\ pc'[t] # "get_expiry"
             /\ expiredAt(shards[shardOf(t)], loc[t].key)
             => LET st == shards[shardOf(t)]  new == shards'[shardOf(t)]
                IN /\ ~loc'[t].found /\ loc'[t].val = ZeroV
                   /\ pc'[t] = loc[t].cont
                   /\ sameEntries(st, new)
                   /\ new.ghostActive = st.ghostActive /\ new.ghostAging = st.ghostAging
                   /\ s3fifo_len' = s3fifo_len
          /\ cfg.kind = "s3fifo" /\ pc[t] = "idle" /\ pc'[t] = "ret" /\ loc'[t].op = "Get"
             /\ expiredAt(shards[0], loc'[t].key)
             => /\ ~loc'[t].found /\ loc'[t].val = ZeroV
                /\ sameEntries(shards[0], shards'[0])
                /\ shards'[0].ghost = shards[0].ghost
                /\ bdcache_len(shards'[0]) = bdcache_len(shards[0])]_vars

\* A get of the memory-only cache has missed on an entry that has expired:
\* the entry is still resident, in a queue, and counted by the length.
C36_Witness ==
    \E t \in cfg.threads :
        /\ cfg.kind = "MemoryCache"
        /\ returned(t, "Get") /\ ~loc[t].found
        /\ expiredAt(shards[shardOf(t)], loc[t].key)
        /\ shards[shardOf(t)].entries[loc[t].key] \in Range(queueNodes(shards[shardOf(t)]))
        /\ s3fifo_len >= 1

\* C37: a delete of a resident key takes the key out of the map and out of
\* its queue, and leaves every other entry, the order of both queues and the
\* ghost as they were; a delete of a key that is not resident changes nothing
\* and reports no error.
withoutKey(keys, k) == SelectSeq(keys, LAMBDA x : x # k)
deleteFrame(st, new, k) ==
    /\ new.entries[k] = Nil
    /\ \A o \in Keys \ {k} :
          /\ (new.entries[o] = Nil) = (st.entries[o] = Nil)
          /\ st.entries[o] # Nil => entryObj(new, o) = entryObj(st, o)
    /\ queueKeys(new, new.small) = withoutKey(queueKeys(st, st.small), k)
    /\ queueKeys(new, new.main) = withoutKey(queueKeys(st, st.main), k)
C37_DeleteFrame ==
    [][\A t \in cfg.threads :
          /\ pc[t] = "del" /\ pc'[t] # "del"
             => LET st == shards[shardOf(t)]  new == shards'[shardOf(t)]
                IN /\ deleteFrame(st, new, loc[t].key)
                   /\ new.ghostActive = st.ghostActive /\ new.ghostAging = st.ghostAging
                   /\ loc'[t].err = "nil"
                   /\ pc'[t] = loc[t].cont
          /\ cfg.kind = "s3fifo" /\ pc[t] = "idle" /\ pc'[t] = "ret" /\ loc'[t].op = "Delete"
             => /\ deleteFrame(shards[0], shards'[0], loc'[t].key)
                /\ shards'[0].ghost = shards[0].ghost
                /\ loc'[t].err = "nil"]_vars

\* A delete has removed a key that was resident when it was called, from a
\* shard that holds another entry and whose ghost remembers a key.
C37_Witness ==
    \E t \in cfg.threads :
        /\ returned(t, "Delete")
        /\ loc[t].key \in loc[t].had
        /\ loc[t].key \notin resident
        /\ resident # {}
        /\ shards[shardOf(t)].ghostActive \cup shards[shardOf(t)].ghostAging # {}

\* C38: the ghost of a shard never holds more than 2 x ghostCap keys.  A key
\* handed to the ghost goes into the active generation, which is counted by
\* ghostCount and stays below ghostCap: when it reaches ghostCap the aging
\* generation is dropped and the active one takes its place, so that the
\* aging generation holds at most ghostCap keys and the key handed to the
\* ghost last is in one of the two.  The ghost of the single-lock s3fifo is
\* one queue of at most ghostCap keys.
ghostWithin(st) ==
    /\ Cardinality(st.ghostActive \cup st.ghostAging) <= 2 * st.ghostCap
    /\ st.ghostCount = Cardinality(st.ghostActive)
    /\ st.ghostCount < st.ghostCap
    /\ Cardinality(st.ghostAging) <= st.ghostCap
C38_GhostBounded ==
    IF cfg.kind = "s3fifo"
    THEN Len(shards[0].ghost) <= shards[0].ghostCap
    ELSE /\ \A i \in ShardIdx : ghostWithin(shards[i])
         /\ \A t \in cfg.threads :
               cfg.keys = {} /\ loc[t].key # ZeroKey => inGhostOf(shards[0], loc[t].key)

\* The generations of a ghost of capacity 2 or more have swapped twice: the
\* aging generation is full, the active one is empty, and the key handed to
\* the ghost last is in the aging generation while older keys are forgotten.
C38_Witness ==
    \E t \in cfg.threads :
        LET st == shards[0]
        IN /\ cfg.keys = {} /\ st.ghostCap >= 2
           /\ Cardinality(st.ghostAging) = st.ghostCap
           /\ st.ghostActive = {}
           /\ loc[t].key \in st.ghostAging
           /\ \E k \in GhostKeys : k < loc[t].key /\ ~inGhostOf(st, k)

\* C39: no thread holds the locks of two shards at once; a thread that goes
\* through the shards (flush, len) holds no lock between one shard and the
\* next; a thread holds no shard lock while it is at a call of the
\* persistence tier, or idle; and the holder of a lock is inside the critical
\* section of shard.set, where it waits for no lock, so that no cycle of
\* waiting threads can form.
locksOf(t) == {i \in ShardIdx : mu[i] = t}
atPersistence(t) ==
    pc[t] \in {"pget_load", "pset_store", "pasync_go", "pdel_store", "pflush_store",
               "cget_load", "cset_store", "cdel_store"}
C39_LockDiscipline ==
    /\ \A t \in Threads :
          /\ Cardinality(locksOf(t)) <= 1
          /\ pc[t] \in {"flush", "len"} => locksOf(t) = {}
          /\ atPersistence(t) => locksOf(t) = {}
          /\ pc[t] \in {"idle", "ret"} => locksOf(t) = {}
    /\ \A i \in ShardIdx :
          mu[i] # NoThread
          => /\ pc[mu[i]] \in {"set_loop", "evict_small", "evict_main", "set_insert"}
             /\ shardOf(mu[i]) = i

\* A flush has emptied the first of two shards and is about to take the lock
\* of the second, which another thread holds in the middle of a set, while
\* the cache has a persistence tier.
C39_Witness ==
    \E t \in cfg.threads : \E u \in cfg.threads \ {t} :
        /\ Cardinality(ShardIdx) = 2
        /\ cfg.persist
        /\ pc[t] = "flush" /\ loc[t].i = 1
        /\ mu[1] = u /\ pc[u] = "set_insert"

\* C40: once a call of Close has returned, the warmup goroutine takes no
\* further step of memory.set: it neither updates a resident entry nor
\* inserts a new one.
closeReturned == hist.closed /\ \A t \in cfg.threads : ~returned(t, "Close")
C40_NoWarmupAfterClose ==
    [][closeReturned
       => /\ ~(pc[Warmer] = "set_begin" /\ pc'[Warmer] # "set_begin")
          /\ ~(pc[Warmer] = "set_insert" /\ pc'[Warmer] # "set_insert")]_vars

====
